---- MODULE Spec2Model ----
(***************************************************************************)
(* Chart-data pipeline of the work-package chat frontend: the transform    *)
(* layer (applyTransform), the per-chart-type processors and the dispatch  *)
(* of DynamicChart, with the empty-data guard of EnhancedChartRenderer.    *)
(* Source: src/client/src/components/visualizations/dynamic-chart.tsx      *)
(* (the current version of the file, lines 1076-2620) and                  *)
(* enhanced-chart-renderer.tsx.                                            *)
(*                                                                         *)
(* JavaScript values are modelled as tagged records, objects as functions  *)
(* from property names to values, arrays as sequences.  Numbers are exact  *)
(* rationals n/d; the inputs are integers, so every quotient the modelled  *)
(* code forms is computed exactly.                                         *)
(***************************************************************************)
EXTENDS Integers, Sequences, FiniteSets, TLC

VARIABLES rows, call, out, rendered, bars, table, calls, event, chat, genie, storage, viewer, app

vars == <<rows, call, out, rendered, bars, table, calls, event, chat, genie, storage, viewer, app>>

\* the state of the table component (EnhancedWorkPackageTable), the calls of
\* generateVisualization that await the visualization service, and the
\* handler that ran last with the toasts it raised; the state of a chat
\* message (ChatMessage) with the charts saved from it; the page
\* (WorkpacksGenie) with its chat hook (useChat); the savedCharts item of the
\* browser's localStorage
uiVars == <<table, calls, event, chat, genie, storage, viewer, app>>

(***************************************************************************)
(* Bounds of the model.                                                    *)
(***************************************************************************)
MaxRows == 3

(***************************************************************************)
(* JavaScript values.                                                      *)
(***************************************************************************)
RECURSIVE Gcd(_, _)
Gcd(a, b) == IF b = 0 THEN a ELSE Gcd(b, a % b)

Abs(x) == IF x < 0 THEN -x ELSE x

Num(n) == [t |-> "num", n |-> n, d |-> 1, s |-> ""]

\* the number a/b, b # 0, in lowest terms with a positive denominator
Frac(a, b) ==
  LET g == Gcd(Abs(a), Abs(b))
      sg == IF b < 0 THEN -1 ELSE 1
  IN [t |-> "num", n |-> sg * (a \div g), d |-> sg * (b \div g), s |-> ""]

NaN == [t |-> "nan", n |-> 0, d |-> 1, s |-> ""]

Str(s) == [t |-> "str", n |-> 0, d |-> 1, s |-> s]

Undef == [t |-> "undef", n |-> 0, d |-> 1, s |-> ""]

\* ToBoolean: what `v || other` and `!v` test
Truthy(v) ==
  \/ v.t = "num" /\ v.n # 0
  \/ v.t = "str" /\ v.s # ""

\* floor and Math.round (half up, towards +Infinity) of the rational a/b, b > 0
FloorDiv(a, b) == a \div b

RoundDiv(a, b) == (2 * a + b) \div (2 * b)

\* String(v) for the values that occur as cell values
StringOf(v) ==
  CASE v.t = "num" -> IF v.d = 1 THEN ToString(v.n)
                      ELSE ToString(v.n) \o "/" \o ToString(v.d)
    [] v.t = "str" -> v.s
    [] v.t = "nan" -> "NaN"
    [] OTHER -> "undefined"

(***************************************************************************)
(* Strings are TLA+ strings; Chars gives the spelling of each string the   *)
(* model parses or searches (column names, transform codes, titles, cell   *)
(* texts), so that includes / startsWith / split / parseInt / parseFloat   *)
(* are computed character by character.                                   *)
(***************************************************************************)
Chars(s) ==
  CASE s = "" -> <<>>
    [] s = "status" -> <<"s","t","a","t","u","s">>
    [] s = "budget" -> <<"b","u","d","g","e","t">>
    [] s = "wp_name" -> <<"w","p","_","n","a","m","e">>
    [] s = "description" -> <<"d","e","s","c","r","i","p","t","i","o","n">>
    [] s = "label" -> <<"l","a","b","e","l">>
    [] s = "Name" -> <<"N","a","m","e">>
    [] s = "name" -> <<"n","a","m","e">>
    [] s = "date" -> <<"d","a","t","e">>
    [] s = "start" -> <<"s","t","a","r","t">>
    [] s = "finish" -> <<"f","i","n","i","s","h">>
    [] s = "tag_count" -> <<"t","a","g","_","c","o","u","n","t">>
    [] s = "Count" -> <<"C","o","u","n","t">>
    [] s = "Budget" -> <<"B","u","d","g","e","t">>
    [] s = "Task Count" -> <<"T","a","s","k"," ","C","o","u","n","t">>
    [] s = "count" -> <<"c","o","u","n","t">>
    [] s = "sum" -> <<"s","u","m">>
    [] s = "mean" -> <<"m","e","a","n">>
    [] s = "aggregate_sum" -> <<"a","g","g","r","e","g","a","t","e","_","s","u","m">>
    [] s = "aggregate_mean" -> <<"a","g","g","r","e","g","a","t","e","_","m","e","a","n">>
    [] s = "date_group:" -> <<"d","a","t","e","_","g","r","o","u","p",":">>
    [] s = "date_group:year" -> <<"d","a","t","e","_","g","r","o","u","p",":","y","e","a","r">>
    [] s = "date_group:quarter" -> <<"d","a","t","e","_","g","r","o","u","p",":","q","u","a","r","t","e","r">>
    [] s = "date_group:month_year" -> <<"d","a","t","e","_","g","r","o","u","p",":","m","o","n","t","h","_","y","e","a","r">>
    [] s = "date_group:month" -> <<"d","a","t","e","_","g","r","o","u","p",":","m","o","n","t","h">>
    [] s = "date_group:day" -> <<"d","a","t","e","_","g","r","o","u","p",":","d","a","y">>
    [] s = "date_group:week" -> <<"d","a","t","e","_","g","r","o","u","p",":","w","e","e","k">>
    [] s = "year" -> <<"y","e","a","r">>
    [] s = "quarter" -> <<"q","u","a","r","t","e","r">>
    [] s = "month_year" -> <<"m","o","n","t","h","_","y","e","a","r">>
    [] s = "month" -> <<"m","o","n","t","h">>
    [] s = "day" -> <<"d","a","y">>
    [] s = "rolling_mean:" -> <<"r","o","l","l","i","n","g","_","m","e","a","n",":">>
    [] s = "rolling_mean:0" -> <<"r","o","l","l","i","n","g","_","m","e","a","n",":","0">>
    [] s = "rolling_mean:1" -> <<"r","o","l","l","i","n","g","_","m","e","a","n",":","1">>
    [] s = "rolling_mean:2" -> <<"r","o","l","l","i","n","g","_","m","e","a","n",":","2">>
    [] s = "rolling_mean:3" -> <<"r","o","l","l","i","n","g","_","m","e","a","n",":","3">>
    [] s = "rolling_mean:x" -> <<"r","o","l","l","i","n","g","_","m","e","a","n",":","x">>
    [] s = "rolling_mean:-1" -> <<"r","o","l","l","i","n","g","_","m","e","a","n",":","-","1">>
    [] s = "topk:" -> <<"t","o","p","k",":">>
    [] s = "topk:0" -> <<"t","o","p","k",":","0">>
    [] s = "topk:1" -> <<"t","o","p","k",":","1">>
    [] s = "topk:2" -> <<"t","o","p","k",":","2">>
    [] s = "topk:5" -> <<"t","o","p","k",":","5">>
    [] s = "bin:" -> <<"b","i","n",":">>
    [] s = "bin:1" -> <<"b","i","n",":","1">>
    [] s = "bin:2" -> <<"b","i","n",":","2">>
    [] s = "bin:3" -> <<"b","i","n",":","3">>
    [] s = "bin:auto" -> <<"b","i","n",":","a","u","t","o">>
    [] s = "bin:quartile" -> <<"b","i","n",":","q","u","a","r","t","i","l","e">>
    [] s = "auto" -> <<"a","u","t","o">>
    [] s = "quartile" -> <<"q","u","a","r","t","i","l","e">>
    [] s = "other_group:" -> <<"o","t","h","e","r","_","g","r","o","u","p",":">>
    [] s = "other_group:0" -> <<"o","t","h","e","r","_","g","r","o","u","p",":","0">>
    [] s = "other_group:0.4" -> <<"o","t","h","e","r","_","g","r","o","u","p",":","0",".","4">>
    [] s = "other_group:0.5" -> <<"o","t","h","e","r","_","g","r","o","u","p",":","0",".","5">>
    [] s = "other_group:2" -> <<"o","t","h","e","r","_","g","r","o","u","p",":","2">>
    [] s = "other_group:x" -> <<"o","t","h","e","r","_","g","r","o","u","p",":","x">>
    [] s = "Other" -> <<"O","t","h","e","r">>
    [] s = "scatter" -> <<"s","c","a","t","t","e","r">>
    [] s = "Done" -> <<"D","o","n","e">>
    [] s = "completed" -> <<"c","o","m","p","l","e","t","e","d">>
    [] s = "delayed" -> <<"d","e","l","a","y","e","d">>
    [] s = "TBD" -> <<"T","B","D">>
    [] s = "0" -> <<"0">>
    [] s = "Completed" -> <<"C","o","m","p","l","e","t","e","d">>
    [] s = "Delayed" -> <<"D","e","l","a","y","e","d">>
    [] s = "In Progress" -> <<"I","n"," ","P","r","o","g","r","e","s","s">>
    [] s = "Completed (delayed)" -> <<"C","o","m","p","l","e","t","e","d"," ","(","d","e","l","a","y","e","d",")">>
    [] s = "Open" -> <<"O","p","e","n">>
    [] s = "Unknown" -> <<"U","n","k","n","o","w","n">>
    [] s = "$3" -> <<"$","3">>
    [] s = "undefined" -> <<"u","n","d","e","f","i","n","e","d">>
    [] s = "NaN" -> <<"N","a","N">>

\* s.includes(sub), for the characters c of s and p of sub
Includes(c, p) ==
  \E i \in 1..(Len(c) - Len(p) + 1) : SubSeq(c, i, i + Len(p) - 1) = p

\* s.startsWith(prefix), for the characters c of s and p of prefix
StartsWith(c, p) == Len(c) >= Len(p) /\ SubSeq(c, 1, Len(p)) = p

\* the characters of s.split(':')[1], for the characters c of s; <<"?">>
\* stands for undefined (no ':')
SplitColon1(c) ==
  LET colons == {i \in 1..Len(c) : c[i] = ":"}
  IN IF colons = {} THEN <<"?">>
     ELSE LET a == CHOOSE i \in colons : \A j \in colons : i <= j
              rest == colons \ {a}
              b == IF rest = {} THEN Len(c) + 1
                   ELSE CHOOSE i \in rest : \A j \in rest : i <= j
          IN SubSeq(c, a + 1, b - 1)

DigitVal(ch) ==
  CASE ch = "0" -> 0 [] ch = "1" -> 1 [] ch = "2" -> 2 [] ch = "3" -> 3
    [] ch = "4" -> 4 [] ch = "5" -> 5 [] ch = "6" -> 6 [] ch = "7" -> 7
    [] ch = "8" -> 8 [] ch = "9" -> 9 [] OTHER -> -1

IsDigit(ch) == DigitVal(ch) >= 0

\* parseInt / parseFloat of a character sequence holding no '.', 'e' or
\* leading blank: an optional sign, then the longest run of digits; NaN when
\* that run is empty
ParseNumber(c) ==
  LET neg == Len(c) >= 1 /\ c[1] = "-"
      from == IF Len(c) >= 1 /\ (c[1] = "-" \/ c[1] = "+") THEN 2 ELSE 1
      stop == IF \E i \in from..Len(c) : ~IsDigit(c[i])
              THEN CHOOSE i \in from..Len(c) :
                     ~IsDigit(c[i]) /\ \A j \in from..(i - 1) : IsDigit(c[j])
              ELSE Len(c) + 1
      val[i \in (from - 1)..Len(c)] ==
        IF i < from THEN 0 ELSE 10 * val[i - 1] + DigitVal(c[i])
  IN IF stop = from THEN NaN
     ELSE Num(IF neg THEN -val[stop - 1] ELSE val[stop - 1])

\* the characters of String(v)
CharsOfValue(v) ==
  IF v.t = "num"
  THEN LET digits[k \in Nat] ==
             IF k < 10 THEN <<ToString(k)>> ELSE digits[k \div 10] \o <<ToString(k % 10)>>
       IN IF v.n < 0 THEN <<"-">> \o digits[-v.n] ELSE digits[v.n]
  ELSE Chars(StringOf(v))

\* parseFloat(String(v))
ParseFloatOf(v) == ParseNumber(CharsOfValue(v))

\* parseFloat(String(v).replace(/[^0-9.-]/g, ''))
IsNumericChar(ch) == IsDigit(ch) \/ ch = "." \/ ch = "-"

ParseFloatStripped(v) == ParseNumber(SelectSeq(CharsOfValue(v), IsNumericChar))

\* `x || 0` for a number x: NaN and 0 both give 0
OrZero(x) == IF Truthy(x) THEN x ELSE Num(0)

\* the index after the longest run of digits of c that starts at from
DigitRunEnd(c, from) ==
  IF \E i \in from..Len(c) : ~IsDigit(c[i])
  THEN CHOOSE i \in from..Len(c) :
         ~IsDigit(c[i]) /\ \A j \in from..(i - 1) : IsDigit(c[j])
  ELSE Len(c) + 1

\* the number the digits c[from..to] spell, 0 for an empty range
DigitsValue(c, from, to) ==
  LET val[i \in (from - 1)..to] ==
        IF i < from THEN 0 ELSE 10 * val[i - 1] + DigitVal(c[i])
  IN val[to]

\* the decimal literal with the whole digits c[from..dot-1] and, when c[dot]
\* is '.', the fraction digits c[dot+1..stop-1]; NaN when it has no digit
DecimalValue(c, neg, from, dot, stop) ==
  IF stop - from = 0 \/ (stop - from = 1 /\ dot = from /\ dot < stop) THEN NaN
  ELSE LET fl == IF dot < stop THEN stop - dot - 1 ELSE 0
           m == DigitsValue(c, from, dot - 1) * 10 ^ fl
                + (IF dot < stop THEN DigitsValue(c, dot + 1, stop - 1) ELSE 0)
       IN Frac(IF neg THEN -m ELSE m, 10 ^ fl)

\* where the decimal literal that starts at from ends, its whole part ending
\* before dot
DecimalEnd(c, dot) ==
  IF dot <= Len(c) /\ c[dot] = "." THEN DigitRunEnd(c, dot + 1) ELSE dot

\* parseFloat of a character sequence without exponent or leading blank: an
\* optional sign, digits, and an optional '.' followed by digits
ParseFloat(c) ==
  LET neg == Len(c) >= 1 /\ c[1] = "-"
      from == IF Len(c) >= 1 /\ (c[1] = "-" \/ c[1] = "+") THEN 2 ELSE 1
  IN DecimalValue(c, neg, from, DigitRunEnd(c, from),
                  DecimalEnd(c, DigitRunEnd(c, from)))

(***************************************************************************)
(* Arithmetic on JavaScript numbers (exact rationals).                     *)
(***************************************************************************)
NAdd(a, b) == Frac(a.n * b.d + b.n * a.d, a.d * b.d)

NSub(a, b) == Frac(a.n * b.d - b.n * a.d, a.d * b.d)

NLess(a, b) == a.n * b.d < b.n * a.d

NLeq(a, b) == a.n * b.d <= b.n * a.d

\* a / k for an integer k; x / 0 is NaN for x = 0 and +-Infinity otherwise,
\* and the only use of a zero divisor in the modelled code is 0 / 0
NDivInt(a, k) == IF k = 0 THEN NaN ELSE Frac(a.n, a.d * k)

RECURSIVE NSum(_)
NSum(seq) == IF seq = <<>> THEN Num(0) ELSE NAdd(seq[1], NSum(Tail(seq)))

NMin(seq) == seq[CHOOSE i \in 1..Len(seq) : \A j \in 1..Len(seq) : NLeq(seq[i], seq[j])]

NMax(seq) == seq[CHOOSE i \in 1..Len(seq) : \A j \in 1..Len(seq) : NLeq(seq[j], seq[i])]

\* x.toFixed(1): the nearest multiple of 1/10, the larger one on a tie
ToFixed1(x) ==
  LET tenths == RoundDiv(10 * x.n, x.d)
      a == Abs(tenths)
  IN (IF tenths < 0 THEN "-" ELSE "") \o ToString(a \div 10) \o "." \o ToString(a % 10)

(***************************************************************************)
(* Arrays and objects.                                                     *)
(***************************************************************************)
\* { ...o, [k]: v }: a later property replaces an earlier one of the same name
Put(o, k, v) == (k :> v) @@ o

\* item[column]
Get(item, column) == IF column \in DOMAIN item THEN item[column] ELSE Undef

\* Array.prototype.sort with a numeric comparator (a, b) => key(a) - key(b),
\* given the elements and their keys: ascending by key, and stable, so x is
\* placed after the elements whose key is not greater than its own
InsertByKey(sorted, x) ==
  LET n == Len(sorted)
      p == IF \E i \in 1..n : NLess(x.key, sorted[i].key)
           THEN CHOOSE i \in 1..n :
                  NLess(x.key, sorted[i].key)
                  /\ \A j \in 1..(i - 1) : ~NLess(x.key, sorted[j].key)
           ELSE n + 1
  IN SubSeq(sorted, 1, p - 1) \o <<x>> \o SubSeq(sorted, p, n)

StableSort(seq, keys) ==
  LET f[i \in 0..Len(seq)] ==
        IF i = 0 THEN <<>>
        ELSE InsertByKey(f[i - 1], [key |-> keys[i], elem |-> seq[i]])
      r == f[Len(seq)]
  IN [i \in 1..Len(seq) |-> r[i].elem]

\* An accumulator object built by reduce: its own properties in insertion
\* order, each [k |-> property name, v |-> value]
AccHas(acc, k) == \E i \in 1..Len(acc) : acc[i].k = k

AccIndex(acc, k) == CHOOSE i \in 1..Len(acc) : acc[i].k = k

\* the array index a property name denotes, or -1: names that are canonical
\* non-negative integers enumerate first, in ascending order
MaxIndexKey == 9

KeyIndex(k) ==
  IF \E n \in 0..MaxIndexKey : ToString(n) = k
  THEN CHOOSE n \in 0..MaxIndexKey : ToString(n) = k
  ELSE -1

\* Object.entries(acc) (Object.values is its second column)
ObjectEntries(acc) ==
  LET idx == SelectSeq(acc, LAMBDA e : KeyIndex(e.k) >= 0)
      named == SelectSeq(acc, LAMBDA e : KeyIndex(e.k) < 0)
  IN StableSort(idx, [i \in 1..Len(idx) |-> Num(KeyIndex(idx[i].k))]) \o named

\* item[column] || 'Unknown', used as a property name
GroupKey(item, column) ==
  LET v == Get(item, column) IN IF Truthy(v) THEN StringOf(v) ELSE "Unknown"

\* CountBy with rows whose cell is missing or falsy left out instead of
\* counted under 'Unknown'
CountBySkippingFalsy(data, column) ==
  LET f[i \in 0..Len(data)] ==
        IF i = 0 THEN <<>>
        ELSE LET k == GroupKey(data[i], column)
                 acc == f[i - 1]
             IN IF ~Truthy(Get(data[i], column)) THEN acc
                ELSE IF AccHas(acc, k)
                THEN [acc EXCEPT ![AccIndex(acc, k)].v = @ + 1]
                ELSE Append(acc, [k |-> k, v |-> 1])
  IN f[Len(data)]

\* data.reduce((acc, item) => { acc[key] = (acc[key] || 0) + 1 }, {})
CountBy(data, column) ==
  LET f[i \in 0..Len(data)] ==
        IF i = 0 THEN <<>>
        ELSE LET k == GroupKey(data[i], column)
                 acc == f[i - 1]
             IN IF AccHas(acc, k)
                THEN [acc EXCEPT ![AccIndex(acc, k)].v = @ + 1]
                ELSE Append(acc, [k |-> k, v |-> 1])
  IN f[Len(data)]

\* an object literal { k1: v1, k2: v2, ... } given as <<k1, v1>>, <<k2, v2>>, ...
Obj(props) ==
  LET f[i \in 0..Len(props)] ==
        IF i = 0 THEN <<>> ELSE Put(f[i - 1], props[i][1], props[i][2])
  IN f[Len(props)]

\* a call's outcome: the array it returned, or the exception it threw
Returned(recs) == [threw |-> FALSE, recs |-> recs]

Threw == [threw |-> TRUE, recs |-> <<>>]

(***************************************************************************)
(* applyTransform(data, column, transform)                                 *)
(***************************************************************************)
Null == "null"

\* parseInt(transform.split(':')[1]) || dflt
IntOr(parsed, dflt) == IF Truthy(parsed) THEN parsed.n ELSE dflt

IntParam(transform, dflt) == IntOr(ParseNumber(SplitColon1(Chars(transform))), dflt)

\* ([name, value]) => ({ [column]: name, count: value, value: value })
CountRecord(column, e) ==
  Obj(<< <<column, Str(e.k)>>, <<"count", Num(e.v)>>, <<"value", Num(e.v)>> >>)

\* entries.map(([name, value]) => ({ [column]: name, count: value, value: value }))
CountRecords(column, entries) ==
  [i \in 1..Len(entries) |-> CountRecord(column, entries[i])]

\* transform === 'count'
TransformCount(data, column) == CountRecords(column, ObjectEntries(CountBy(data, column)))

\* array.slice(0, k): a negative k counts from the end
SliceTo(seq, k) ==
  LET upto == IF k >= 0 THEN k ELSE Len(seq) + k
  IN SubSeq(seq, 1, IF upto > Len(seq) THEN Len(seq) ELSE upto)

\* entries.sort(([, a], [, b]) => b - a)
SortByCountDescending(entries) ==
  StableSort(entries, [i \in 1..Len(entries) |-> Num(-entries[i].v)])

\* TransformTopK with the comparator of bottomk, a - b
TransformTopKAscending(data, column, transform) ==
  LET entries == ObjectEntries(CountBy(data, column))
  IN CountRecords(column,
       SliceTo(StableSort(entries, [i \in 1..Len(entries) |-> Num(entries[i].v)]),
               IntParam(transform, 10)))

\* transform.startsWith('topk:'): sort(([, a], [, b]) => b - a).slice(0, k)
TransformTopK(data, column, transform) ==
  CountRecords(column,
    SliceTo(SortByCountDescending(ObjectEntries(CountBy(data, column))),
            IntParam(transform, 10)))

\* data.map(item => parseFloat(String(item[column])) || 0).filter(v => !isNaN(v))
BinValues(data, column) ==
  [i \in 1..Len(data) |-> OrZero(ParseFloatOf(Get(data[i], column)))]

\* Math.ceil(Math.sqrt(n))
CeilSqrt(n) == CHOOSE r \in 0..n : r * r >= n /\ (r = 0 \/ (r - 1) * (r - 1) < n)

\* binParam === 'auto' ? Math.ceil(Math.sqrt(values.length)) : parseInt(binParam) || 10
BinCount(transform, values) ==
  IF SplitColon1(Chars(transform)) = Chars("auto") THEN CeilSqrt(Len(values))
  ELSE IntParam(transform, 10)

\* Math.min(Math.floor((value - min) / binWidth), binCount - 1), with
\* binWidth = (max - min) / binCount.  A zero binWidth makes the quotient
\* 0 / 0 = NaN and the index NaN, a negative binCount makes it negative:
\* -1 stands for every index that names no element of bins
BinIndex(value, min, max, binCount) ==
  IF NSub(max, min).n = 0 \/ binCount <= 0 THEN -1
  ELSE LET fl == FloorDiv(NSub(value, min).n * NSub(max, min).d * binCount,
                          NSub(value, min).d * NSub(max, min).n)
       IN IF fl < binCount - 1 THEN fl ELSE binCount - 1

\* min + i * binWidth
BinEdge(min, max, binCount, i) ==
  NAdd(min, Frac(i * NSub(max, min).n, binCount * NSub(max, min).d))

\* `${(min + i * binWidth).toFixed(1)}-${(min + (i + 1) * binWidth).toFixed(1)}`;
\* with no value min is Infinity, max is -Infinity and both ends are NaN
BinLabel(values, binCount, i) ==
  IF values = <<>> THEN "NaN-NaN"
  ELSE ToFixed1(BinEdge(NMin(values), NMax(values), binCount, i)) \o "-"
         \o ToFixed1(BinEdge(NMin(values), NMax(values), binCount, i + 1))

\* the bin index of each value
BinIndexes(values, binCount) ==
  [i \in 1..Len(values) |-> BinIndex(values[i], NMin(values), NMax(values), binCount)]

\* bins[binIndex].count++ throws a TypeError when bins[binIndex] is undefined
BinThrows(indexes, binCount) ==
  \E i \in 1..Len(indexes) : indexes[i] < 0 \/ indexes[i] >= binCount

\* Array.from({ length: n }, ...) has no element for n <= 0
ArrayLength(n) == IF n > 0 THEN n ELSE 0

\* bins[b].count after the loop over the values
BinSize(indexes, b) == Cardinality({i \in 1..Len(indexes) : indexes[i] = b})

\* the bins of the first branch: { [column]: label, count }
Bins(column, values, binCount) ==
  IF BinThrows(BinIndexes(values, binCount), binCount) THEN Threw
  ELSE Returned([b \in 1..ArrayLength(binCount) |->
         Obj(<< <<column, Str(BinLabel(values, binCount, b - 1))>>,
                <<"count", Num(BinSize(BinIndexes(values, binCount), b - 1))>> >>)])

\* the first transform.startsWith('bin:') branch
TransformBin(data, column, transform) ==
  Bins(column, BinValues(data, column), BinCount(transform, BinValues(data, column)))

\* values.sort((a, b) => a - b)
SortNumbers(values) == StableSort(values, values)

\* the second transform.startsWith('bin:') branch, binParam === 'quartile',
\* for the sorted values
TransformBinQuartile(column, sorted) ==
  LET n == Len(sorted)
      q1 == sorted[(n \div 4) + 1]
      q2 == sorted[(n \div 2) + 1]
      q3 == sorted[((3 * n) \div 4) + 1]
      bin(v) == IF NLeq(v, q1) THEN 1 ELSE IF NLeq(v, q2) THEN 2
                ELSE IF NLeq(v, q3) THEN 3 ELSE 4
      label == << "Q1 (<=" \o ToFixed1(q1) \o ")",
                  "Q2 (" \o ToFixed1(q1) \o "-" \o ToFixed1(q2) \o ")",
                  "Q3 (" \o ToFixed1(q2) \o "-" \o ToFixed1(q3) \o ")",
                  "Q4 (>=" \o ToFixed1(q3) \o ")" >>
  IN [b \in 1..4 |->
        LET c == Cardinality({i \in 1..n : bin(sorted[i]) = b})
        IN Obj(<< <<column, Str(label[b])>>, <<"count", Num(c)>>, <<"value", Num(c)>> >>)]

\* the bins of the second branch: { [column]: label, count, value }
BinsWithValue(column, values, binCount) ==
  IF BinThrows(BinIndexes(values, binCount), binCount) THEN Threw
  ELSE Returned([b \in 1..ArrayLength(binCount) |->
         Obj(<< <<column, Str(BinLabel(values, binCount, b - 1))>>,
                <<"count", Num(BinSize(BinIndexes(values, binCount), b - 1))>>,
                <<"value", Num(BinSize(BinIndexes(values, binCount), b - 1))>> >>)])

\* the second transform.startsWith('bin:') branch, for the parsed values
SecondBins(column, values, transform) ==
  IF values = <<>> THEN Returned(<<>>)
  ELSE IF SplitColon1(Chars(transform)) = Chars("quartile")
  THEN Returned(TransformBinQuartile(column, SortNumbers(values)))
  ELSE BinsWithValue(column, values, BinCount(transform, values))

\* the second transform.startsWith('bin:') branch
TransformBinSecond(data, column, transform) ==
  SecondBins(column, BinValues(data, column), transform)

\* transform === 'sum'
TransformSum(data, column) ==
  LET sum == NSum(BinValues(data, column))
  IN << Obj(<< <<column, Str("Total")>>, <<"sum", sum>>, <<"value", sum>>,
               <<"count", Num(Len(data))>> >>) >>

\* transform === 'mean'
TransformMean(data, column) ==
  LET mean == NDivInt(NSum(BinValues(data, column)), Len(data))
  IN << Obj(<< <<column, Str("Average")>>, <<"mean", mean>>, <<"value", mean>>,
               <<"count", Num(Len(data))>> >>) >>

\* parseFloat(transform.split(':')[1]) || dflt
FloatOr(parsed, dflt) == IF Truthy(parsed) THEN parsed ELSE dflt

\* the default threshold of other_group, 0.05
DefaultThreshold == Frac(1, 20)

\* Object.values(counts).reduce((sum, count) => sum + count, 0)
RECURSIVE TotalCount(_)
TotalCount(entries) ==
  IF entries = <<>> THEN 0 ELSE entries[1].v + TotalCount(Tail(entries))

\* count >= minCount, with minCount = total * threshold
ReachesMinCount(e, total, threshold) == e.v * threshold.d >= total * threshold.n

\* the loop over Object.entries(counts) and the push of the 'Other' record
OtherGroupRecords(column, entries, total, threshold) ==
  LET otherCount == TotalCount(SelectSeq(entries,
                      LAMBDA e : ~ReachesMinCount(e, total, threshold)))
  IN CountRecords(column,
       SelectSeq(entries, LAMBDA e : ReachesMinCount(e, total, threshold))
       \o (IF otherCount > 0 THEN << [k |-> "Other", v |-> otherCount] >> ELSE <<>>))

\* transform.startsWith('other_group:')
TransformOtherGroup(data, column, transform) ==
  OtherGroupRecords(column, ObjectEntries(CountBy(data, column)),
                    TotalCount(ObjectEntries(CountBy(data, column))),
                    FloatOr(ParseFloat(SplitColon1(Chars(transform))), DefaultThreshold))

\* array.slice(start, end) for a start that is not negative: a negative end
\* counts from the end of the array
Slice(seq, start, end) ==
  LET to == IF end < 0 THEN Len(seq) + end
            ELSE IF end > Len(seq) THEN Len(seq) ELSE end
  IN SubSeq(seq, start + 1, to)

\* a window that starts after the row it belongs to
RollingWindowAhead(index, window, length) ==
  [start |-> index + 1,
   end |-> IF length < index + 1 + window THEN length ELSE index + 1 + window]

\* start = Math.max(0, index - Math.floor(window / 2)) and
\* end = Math.min(sorted.length, start + window), for the 0-based index
RollingWindow(index, window, length) ==
  LET start == IF index - FloorDiv(window, 2) > 0 THEN index - FloorDiv(window, 2) ELSE 0
  IN [start |-> start, end |-> IF length < start + window THEN length ELSE start + window]

\* [...data].sort by aVal < bVal / aVal > bVal; the rows given to
\* rolling_mean hold numbers in the column, which this orders by value
SortByColumn(data, column) ==
  StableSort(data, [i \in 1..Len(data) |-> Get(data[i], column)])

\* sum / windowData.length over the coerced cells of the window
WindowMean(windowData, column) ==
  NDivInt(NSum([j \in 1..Len(windowData) |->
                  OrZero(ParseFloatStripped(Get(windowData[j], column)))]),
          Len(windowData))

\* sorted.map((item, index) => ({ ...item, [column + '_rolling_mean']: mean,
\* value: mean, count: 1 }))
RollingRecords(sorted, column, window) ==
  [i \in 1..Len(sorted) |->
     Put(Put(Put(sorted[i],
       column \o "_rolling_mean",
         WindowMean(Slice(sorted, RollingWindow(i - 1, window, Len(sorted)).start,
                          RollingWindow(i - 1, window, Len(sorted)).end), column)),
       "value",
         WindowMean(Slice(sorted, RollingWindow(i - 1, window, Len(sorted)).start,
                          RollingWindow(i - 1, window, Len(sorted)).end), column)),
       "count", Num(1))]

\* transform.startsWith('rolling_mean:'), window = parseInt(...) || 3
TransformRollingMean(data, column, transform) ==
  RollingRecords(SortByColumn(data, column), column, IntParam(transform, 3))

\* the transform codes given to Transform (other_group: and rolling_mean:
\* have their own actions, OtherGroup and RollingMean; aggregate_sum,
\* aggregate_mean, percent_of_total, rank:,
\* correlation_matrix, date_group:, bottomk:, alphabetical,
\* frequency, log_scale, normalize, z_score, median, min, max, std are not
\* modelled)
TransformDomain ==
  {Null, "count", "sum", "mean", "topk:0", "topk:1", "topk:2", "topk:5",
   "bin:1", "bin:2", "bin:3", "bin:auto", "bin:quartile"}

\* the branches are tried in the order of the source
ApplyTransform(data, column, transform) ==
  IF transform = Null \/ transform = "" \/ column = Null \/ column = "" THEN Returned(data)
  ELSE IF transform = "count" THEN Returned(TransformCount(data, column))
  ELSE IF StartsWith(Chars(transform), Chars("rolling_mean:"))
  THEN Returned(TransformRollingMean(data, column, transform))
  ELSE IF StartsWith(Chars(transform), Chars("bin:"))
  THEN TransformBin(data, column, transform)
  ELSE IF StartsWith(Chars(transform), Chars("topk:"))
  THEN Returned(TransformTopK(data, column, transform))
  ELSE IF StartsWith(Chars(transform), Chars("other_group:"))
  THEN Returned(TransformOtherGroup(data, column, transform))
  ELSE IF StartsWith(Chars(transform), Chars("bin:"))
  THEN TransformBinSecond(data, column, transform)
  ELSE IF transform = "sum" THEN Returned(TransformSum(data, column))
  ELSE IF transform = "mean" THEN Returned(TransformMean(data, column))
  ELSE Returned(data)

(***************************************************************************)
(* The data set: rows of the work-package table, each with a categorical   *)
(* column and a numeric column, either of which may hold a missing value   *)
(* or a value of the other kind.                                           *)
(***************************************************************************)
Columns == {"status", "budget"}

StatusValues == {Str("Done"), Str("Open"), Undef}

BudgetValues == {Num(0), Num(1), Num(4), Str("$3")}

Row(s, b) == Obj(<< <<"status", s>>, <<"budget", b>> >>)

NoCall == [fn |-> "none", column |-> Null, transform |-> Null]

\* useState(false) / useState([]) / useState("") of the table component
TableInit ==
  [isGeneratingViz |-> FALSE, visualizationSpecs |-> <<>>, showVisualizations |-> FALSE,
   showMessageDialog |-> FALSE, showJsonDialog |-> FALSE, chartJson |-> "",
   sortField |-> Null, sortDirection |-> Null, searchTerm |-> "",
   filterField |-> "all", filterValue |-> "all"]

NoEvent == [name |-> "none", toasts |-> <<>>]

\* useState(false) of savingChart, a message rendered without a conversation
\* id, no chart in the browser's storage or on the backend, no chartSaved
\* event dispatched
ChatInit ==
  [conversationId |-> Undef, savingChart |-> FALSE, stored |-> <<>>, saved |-> <<>>,
   dispatched |-> 0]

\* a conversation id that is null; the ids of conversations are positive
NoConversation == 0

\* the page and its chat hook before any conversation is listed: useState(null)
\* of selectedConversationId and of currentConversationId, no request
\* awaited, no message on the server, none fetched, an empty message list
GenieInit ==
  [conversations |-> <<>>, selectedConversationId |-> NoConversation,
   currentConversationId |-> NoConversation, pending |-> <<>>, created |-> 0,
   server |-> <<>>,
   apiMessages |-> <<>>, messages |-> <<>>]

\* the viewer of saved charts before its first effect: useState([])
ViewerInit == [loaded |-> FALSE, savedCharts |-> <<>>]

\* the single-file chat application after its first effect: the greeting,
\* written at time 0, no conversation, no request in flight
AppInit ==
  [messages |-> <<[id |-> 0, kind |-> "greeting", n |-> 0]>>,
   convId |-> NoConversation, inFlight |-> {}, sent |-> 0, now |-> 0]

\* no <Bar> element rendered
NoBars == [dataKey |-> Null, data |-> <<>>]

Init ==
  /\ rows = <<>>
  /\ call = NoCall
  /\ out = Returned(<<>>)
  /\ rendered = "none"
  /\ bars = NoBars
  /\ table = TableInit
  /\ calls = <<>>
  /\ event = NoEvent
  /\ chat = ChatInit
  /\ genie = GenieInit
  /\ storage = <<>>
  /\ viewer = ViewerInit
  /\ app = AppInit

\* a row arrives from the API
AddRow ==
  /\ call.fn = "none"
  /\ Len(rows) < MaxRows
  /\ \E s \in StatusValues, b \in BudgetValues : rows' = Append(rows, Row(s, b))
  /\ UNCHANGED <<call, out, rendered, bars>>
  /\ UNCHANGED uiVars

\* applyTransform(rows, column, transform)
Transform ==
  /\ call.fn = "none"
  /\ \E column \in Columns, transform \in TransformDomain :
       /\ call' = [fn |-> "applyTransform", column |-> column, transform |-> transform]
       /\ out' = ApplyTransform(rows, column, transform)
  /\ UNCHANGED <<rows, rendered, bars>>
  /\ UNCHANGED uiVars

Next == AddRow \/ Transform

Spec == Init /\ [][Next]_vars

(***************************************************************************)
(* rolling_mean: a data set of rows with a number in the budget column.    *)
(***************************************************************************)
MaxRollingRows == 3

RollingDomain ==
  {"rolling_mean:-1", "rolling_mean:0", "rolling_mean:1", "rolling_mean:2",
   "rolling_mean:3", "rolling_mean:x"}

AddNumberRow ==
  /\ call.fn = "none"
  /\ Len(rows) < MaxRollingRows
  /\ \E b \in {Num(0), Num(1), Num(4)} : rows' = Append(rows, Row(Str("Done"), b))
  /\ UNCHANGED <<call, out, rendered, bars>>
  /\ UNCHANGED uiVars

\* applyTransform(rows, 'budget', 'rolling_mean:w')
RollingMean ==
  /\ call.fn = "none"
  /\ \E transform \in RollingDomain :
       /\ call' = [fn |-> "applyTransform", column |-> "budget", transform |-> transform]
       /\ out' = ApplyTransform(rows, "budget", transform)
  /\ UNCHANGED <<rows, rendered, bars>>
  /\ UNCHANGED uiVars

NextRolling == AddNumberRow \/ RollingMean

SpecRolling == Init /\ [][NextRolling]_vars

(***************************************************************************)
(* other_group: a data set of categories, one of which may itself be       *)
(* called "Other", and the table of twenty rows of one status and one row  *)
(* of another, on which a threshold of 5% separates the two.               *)
(***************************************************************************)
MaxOtherRows == 4

CategoryValues == {Str("Done"), Str("Open"), Str("Other"), Undef}

OtherGroupDomain ==
  {"other_group:0", "other_group:0.4", "other_group:0.5", "other_group:2", "other_group:x"}

LongTable == [i \in 1..21 |-> Row(Str(IF i = 21 THEN "Open" ELSE "Done"), Num(1))]

AddCategoryRow ==
  /\ call.fn = "none"
  /\ Len(rows) < MaxOtherRows
  /\ \E s \in CategoryValues : rows' = Append(rows, Row(s, Num(1)))
  /\ UNCHANGED <<call, out, rendered, bars>>
  /\ UNCHANGED uiVars

LoadLongTable ==
  /\ call.fn = "none"
  /\ rows = <<>>
  /\ rows' = LongTable
  /\ UNCHANGED <<call, out, rendered, bars>>
  /\ UNCHANGED uiVars

\* applyTransform(rows, 'status', 'other_group:t')
OtherGroup ==
  /\ call.fn = "none"
  /\ \E transform \in OtherGroupDomain :
       /\ call' = [fn |-> "applyTransform", column |-> "status", transform |-> transform]
       /\ out' = ApplyTransform(rows, "status", transform)
  /\ UNCHANGED <<rows, rendered, bars>>
  /\ UNCHANGED uiVars

NextOther == AddCategoryRow \/ LoadLongTable \/ OtherGroup

SpecOther == Init /\ [][NextOther]_vars

(***************************************************************************)
(* The chart processors.  A VisualizationSpec is a record                  *)
(* [type, x, y, series, title, transform_x, transform_y]; the legacy       *)
(* fields `transform` and `color` are absent (undefined) in every spec of  *)
(* the model, so `spec.transform_x || spec.transform` is spec.transform_x  *)
(* or undefined, and the branches that test spec.transform alone are not   *)
(* taken.                                                                  *)
(***************************************************************************)
\* a string-or-null operand of `!s`, `s && ...`, `s || ...`
Present(s) == s # Null /\ s # ""

\* spec.title?.includes(sub)
TitleIncludes(spec, sub) == spec.title # Null /\ Includes(Chars(spec.title), Chars(sub))

\* item[column] || fallback, kept as a value
CellOr(item, column, fallback) ==
  IF Truthy(Get(item, column)) THEN Get(item, column) ELSE Str(fallback)

\* sums of the coerced y values by x group:
\* acc[key] = (acc[key] || 0) + (parseFloat(String(item[y]).replace(...)) || 0)
SumBy(data, xColumn, yColumn) ==
  LET f[i \in 0..Len(data)] ==
        IF i = 0 THEN <<>>
        ELSE LET k == GroupKey(data[i], xColumn)
                 value == OrZero(ParseFloatStripped(Get(data[i], yColumn)))
                 acc == f[i - 1]
             IN IF AccHas(acc, k)
                THEN [acc EXCEPT ![AccIndex(acc, k)].v = NAdd(@, value)]
                ELSE Append(acc, [k |-> k, v |-> value])
  IN f[Len(data)]

\* running sum and count of the coerced y values by x group:
\* if (!acc[key]) acc[key] = { sum: 0, count: 0 }; acc[key].sum += value; acc[key].count += 1
MeanBy(data, xColumn, yColumn) ==
  LET f[i \in 0..Len(data)] ==
        IF i = 0 THEN <<>>
        ELSE LET k == GroupKey(data[i], xColumn)
                 value == OrZero(ParseFloatStripped(Get(data[i], yColumn)))
                 acc == f[i - 1]
             IN IF AccHas(acc, k)
                THEN [acc EXCEPT ![AccIndex(acc, k)].v =
                        [sum |-> NAdd(@.sum, value), count |-> @.count + 1]]
                ELSE Append(acc, [k |-> k, v |-> [sum |-> value, count |-> 1]])
  IN f[Len(data)]

\* Percentage with Math.floor in place of Math.round
PercentageTruncated(value, total) ==
  IF total.n = 0 THEN NaN
  ELSE Num(FloorDiv(100 * value.n * total.d, value.d * total.n))

\* Math.round((value / total) * 100); 0 / 0 is NaN
Percentage(value, total) ==
  IF total.n = 0 THEN NaN
  ELSE Num(RoundDiv(100 * value.n * total.d, value.d * total.n))

\* item.count || item.sum || item.value || 1
CountSumValueOr1(item) ==
  IF Truthy(Get(item, "count")) THEN Get(item, "count")
  ELSE IF Truthy(Get(item, "sum")) THEN Get(item, "sum")
  ELSE IF Truthy(Get(item, "value")) THEN Get(item, "value")
  ELSE Num(1)

\* ({ name, value, percentage: Math.round((value / total) * 100) }) per entry
PieRecords(entries, values) ==
  [i \in 1..Len(entries) |->
     Obj(<< <<"name", Str(entries[i].k)>>, <<"value", values[i]>>,
            <<"percentage", Percentage(values[i], NSum(values))>> >>)]

\* the fallback of processPieChart over the rows applyTransform returned
PieFallback(processed, column) ==
  LET vals == [i \in 1..Len(processed.recs) |-> CountSumValueOr1(processed.recs[i])]
  IN IF processed.threw THEN Threw
     ELSE Returned([i \in 1..Len(vals) |->
            Obj(<< <<"name", CellOr(processed.recs[i], column, "Unknown")>>,
                   <<"value", vals[i]>>,
                   <<"percentage", Percentage(vals[i], NSum(vals))>> >>)])

ProcessPieChart(data, spec) ==
  IF ~Present(spec.x) \/ Len(data) = 0 THEN Returned(<<>>)
  ELSE IF Present(spec.y) /\ spec.transform_y \in {"sum", "aggregate_sum"}
  THEN LET sums == ObjectEntries(SumBy(data, spec.x, spec.y))
       IN Returned(PieRecords(sums, [i \in 1..Len(sums) |-> sums[i].v]))
  ELSE IF ~Present(spec.y) \/ spec.transform_y = "count" \/ TitleIncludes(spec, "Count")
  THEN LET counts == ObjectEntries(CountBy(data, spec.x))
       IN Returned(PieRecords(counts, [i \in 1..Len(counts) |-> Num(counts[i].v)]))
  ELSE PieFallback(ApplyTransform(data, spec.x, spec.transform_x), spec.x)

\* spec.transform_x || spec.transform
XTransform(spec) == IF Present(spec.transform_x) THEN spec.transform_x ELSE spec.transform

\* spec.transform_y || spec.transform
YTransform(spec) == IF Present(spec.transform_y) THEN spec.transform_y ELSE spec.transform

\* xTransform && xTransform.startsWith('topk:')
HasTopK(spec) ==
  Present(XTransform(spec)) /\ StartsWith(Chars(XTransform(spec)), Chars("topk:"))

\* if (xTransform && xTransform.startsWith('topk:'))
\*   result = result.sort((a, b) => b[field] - a[field]).slice(0, k)
BarTopK(result, spec, field) ==
  IF HasTopK(spec)
  THEN SliceTo(StableSort(result, [i \in 1..Len(result) |->
                                     NSub(Num(0), result[i][field])]),
               IntParam(XTransform(spec), 10))
  ELSE result

\* the branch of processBarChart for yTransform === 'aggregate_mean'
BarMeans(data, spec) ==
  LET groups == ObjectEntries(MeanBy(data, spec.x, spec.y))
  IN BarTopK([i \in 1..Len(groups) |->
        LET mean == NDivInt(groups[i].v.sum, groups[i].v.count)
        IN Obj(<< <<spec.x, Str(groups[i].k)>>, <<spec.y, mean>>, <<"mean", mean>>,
                  <<"value", mean>>, <<"count", Num(groups[i].v.count)>> >>)],
       spec, spec.y)

\* the branch for spec.transform === 'aggregate_mean' (1730): the records of
\* BarMeans, with no topk step
BarLegacyMeans(data, spec) ==
  LET groups == ObjectEntries(MeanBy(data, spec.x, spec.y))
  IN [i \in 1..Len(groups) |->
        LET mean == NDivInt(groups[i].v.sum, groups[i].v.count)
        IN Obj(<< <<spec.x, Str(groups[i].k)>>, <<spec.y, mean>>, <<"mean", mean>>,
                  <<"value", mean>>, <<"count", Num(groups[i].v.count)>> >>)]

\* the branch of processBarChart for yTransform === 'aggregate_sum' or 'sum'
BarSums(data, spec) ==
  LET sums == ObjectEntries(SumBy(data, spec.x, spec.y))
  IN BarTopK([i \in 1..Len(sums) |->
        Obj(<< <<spec.x, Str(sums[i].k)>>, <<spec.y, sums[i].v>>,
               <<"value", sums[i].v>>, <<"count", Num(1)>> >>)],
       spec, spec.y)

\* the branch for spec.transform === 'aggregate_sum' or 'sum' (1708): the
\* records of BarSums, with no topk step
BarLegacySums(data, spec) ==
  LET sums == ObjectEntries(SumBy(data, spec.x, spec.y))
  IN [i \in 1..Len(sums) |->
        Obj(<< <<spec.x, Str(sums[i].k)>>, <<spec.y, sums[i].v>>,
               <<"value", sums[i].v>>, <<"count", Num(1)>> >>)]

\* the branch of processBarChart for yTransform === 'count' or a title with 'Count'
BarCounts(data, spec) ==
  LET counts == ObjectEntries(CountBy(data, spec.x))
  IN BarTopK([i \in 1..Len(counts) |-> CountRecord(spec.x, counts[i])], spec, "count")

\* sorted.map(([name]) => name)
TopKeys(sorted) == {sorted[i].k : i \in 1..Len(sorted)}

\* data.filter(item => topKeys.includes(item[xColumn])) under a topk code:
\* a row stays when its cell is the name of one of the k largest groups, so
\* the rows counted under 'Unknown' and the cells that are no strings go
TopKeyRows(data, spec) ==
  IF HasTopK(spec)
  THEN SelectSeq(data, LAMBDA item :
         \E name \in TopKeys(SliceTo(SortByCountDescending(ObjectEntries(CountBy(data, spec.x))),
                                     IntParam(XTransform(spec), 10))) :
           Get(item, spec.x) = Str(name))
  ELSE data

\* a.localeCompare(b) over the group names of the status column
LocaleRank(name) ==
  CASE name = "Done" -> 1 [] name = "Open" -> 2 [] name = "Unknown" -> 3 [] OTHER -> 0

\* the second count branch (1652), taken for spec.transform === 'count': the
\* groups of the kept rows in the order of their names; no x column of the
\* model is named like a date, so the keys are not reformatted
BarCountsByName(data, spec) ==
  LET counts == ObjectEntries(CountBy(TopKeyRows(data, spec), spec.x))
  IN CountRecords(spec.x,
       StableSort(counts, [i \in 1..Len(counts) |-> Num(LocaleRank(counts[i].k))]))

\* the branch of processBarChart for a y column with no transform at all
BarRaw(data, spec) ==
  [i \in 1..Len(data) |->
     LET value == OrZero(ParseFloatStripped(Get(data[i], spec.y)))
     IN Obj(<< <<spec.x, CellOr(data[i], spec.x, "Unknown")>>,
               <<spec.y, value>>, <<"value", value>>, <<"count", Num(1)>> >>)]

\* the branches are tried in the order of the source; the tag_count branch
\* (1635) repeats the condition of the first and is never taken
ProcessBarChart(data, spec) ==
  IF ~Present(spec.x) \/ Len(data) = 0 THEN Returned(<<>>)
  ELSE IF YTransform(spec) \in {"aggregate_sum", "sum"} /\ Present(spec.y)
  THEN Returned(BarSums(data, spec))
  ELSE IF YTransform(spec) = "count" \/ TitleIncludes(spec, "Count")
  THEN Returned(BarCounts(data, spec))
  ELSE IF YTransform(spec) = "aggregate_mean" /\ Present(spec.y)
  THEN Returned(BarMeans(data, spec))
  ELSE IF spec.transform = "count"
  THEN Returned(BarCountsByName(data, spec))
  ELSE IF ~Present(spec.y)
  THEN Returned(TransformCount(data, spec.x))
  ELSE IF spec.transform \in {"aggregate_sum", "sum"}
  THEN Returned(BarLegacySums(data, spec))
  ELSE IF ~Present(YTransform(spec)) /\ ~Present(XTransform(spec))
  THEN Returned(BarRaw(data, spec))
  ELSE IF spec.transform = "aggregate_mean"
  THEN Returned(BarLegacyMeans(data, spec))
  ELSE ApplyTransform(data, spec.x, XTransform(spec))

\* WaterfallCumulative that leaves the first row out of the running total
WaterfallCumulativeFromSecond(data, yColumn) ==
  [i \in 0..Len(data) |->
     NSum([j \in 1..i |-> IF j = 1 THEN Num(0)
                           ELSE OrZero(ParseFloatOf(Get(data[j], yColumn)))])]

\* the running total before row i + 1: cumulativeValue after i rows
WaterfallCumulative(data, yColumn) ==
  [i \in 0..Len(data) |->
     NSum([j \in 1..i |-> OrZero(ParseFloatOf(Get(data[j], yColumn)))])]

ProcessWaterfallChart(data, spec) ==
  IF ~Present(spec.x) \/ ~Present(spec.y) \/ Len(data) = 0 THEN Returned(<<>>)
  ELSE LET cumulativeValue == WaterfallCumulative(data, spec.y)
       IN Returned([i \in 1..Len(data) |->
            LET value == OrZero(ParseFloatOf(Get(data[i], spec.y)))
            IN Obj(<< <<spec.x, CellOr(data[i], spec.x, "Step " \o ToString(i))>>,
                      <<spec.y, value>>,
                      <<"cumulative", cumulativeValue[i]>>,
                      <<"start", cumulativeValue[i - 1]>>,
                      <<"end", cumulativeValue[i]>>,
                      <<"value", value>> >>)])

ProcessFunnelChart(data, spec) ==
  IF ~Present(spec.x) \/ ~Present(spec.y) \/ Len(data) = 0 THEN Returned(<<>>)
  ELSE LET processedData ==
             [i \in 1..Len(data) |->
                LET value == OrZero(ParseFloatOf(Get(data[i], spec.y)))
                IN Obj(<< <<spec.x, CellOr(data[i], spec.x, "Unknown")>>,
                          <<spec.y, value>>, <<"value", value>> >>)]
       IN Returned(StableSort(processedData,
                     [i \in 1..Len(processedData) |->
                        NSub(Num(0), processedData[i][spec.y])]))

\* the rows of the model have two columns, so a radar spec finds fewer than
\* three numeric columns and falls back to processPieChart like treemap and
\* sunburst
ProcessSpecialChart(data, spec) ==
  IF ~(Present(spec.x) \/ Present(spec.y)) \/ Len(data) = 0 THEN Returned(<<>>)
  ELSE ProcessPieChart(data, spec)

\* ProcessLineChart with a guard that does not look at y
ProcessLineChartWithoutYGuard(data, spec) ==
  IF ~Present(spec.x) \/ Len(data) = 0 THEN Returned(<<>>)
  ELSE ApplyTransform(data, spec.x, spec.transform_x)

\* spec.series is null and spec.transform_x is no date_group or aggregate
\* code in the specs of the model, which leaves the guard and the final
\* applyTransform of processLineChart
ProcessLineChart(data, spec) ==
  IF ~Present(spec.x) \/ ~Present(spec.y) \/ Len(data) = 0 THEN Returned(<<>>)
  ELSE ApplyTransform(data, spec.x, spec.transform_x)

ProcessAreaChart(data, spec) == ProcessLineChart(data, spec)

\* IsTextColumn without the test for 'label'
IsTextColumnWithoutLabel(column) ==
  \E text \in {"description", "name"} : Includes(Chars(column), Chars(text))

\* xColumn.includes('description') || xColumn.includes('name') || xColumn.includes('label')
IsTextColumn(column) ==
  \E text \in {"description", "name", "label"} : Includes(Chars(column), Chars(text))

\* a string that keeps a character of [0-9.-] and parses is replaced by the number
ScatterParse(v) ==
  IF v.t = "str" /\ SelectSeq(Chars(v.s), IsNumericChar) # <<>>
                 /\ ParseFloatStripped(v).t = "num"
  THEN ParseFloatStripped(v) ELSE v

\* a bubble spec with a series column and a date_group transform are not
\* among the specs of the model that pass the text-column check
ProcessScatterChart(data, spec) ==
  IF ~Present(spec.x) \/ ~Present(spec.y) \/ Len(data) = 0 THEN Returned(<<>>)
  ELSE IF IsTextColumn(spec.x) \/ IsTextColumn(spec.y) THEN Returned(<<>>)
  ELSE Returned([i \in 1..Len(data) |->
         LET yValue == IF spec.transform_y = "sum" \/ ~Present(spec.transform_y)
                       THEN ScatterParse(Get(data[i], spec.y))
                       ELSE Get(data[i], spec.y)
             xValue == IF ~Present(spec.transform_x)
                       THEN ScatterParse(Get(data[i], spec.x))
                       ELSE Get(data[i], spec.x)
             result == Obj(<< <<spec.x, xValue>>, <<spec.y, yValue>>,
                              <<"x", xValue>>, <<"y", yValue>> >>)
         IN IF Present(spec.series) /\ Truthy(Get(data[i], spec.series))
            THEN Put(Put(result, spec.series, Get(data[i], spec.series)),
                     "series", Get(data[i], spec.series))
            ELSE result])

\* the records processHistogram makes of the rows applyTransform returned
HistogramRecords(transformed, columnToBin) ==
  IF transformed.threw THEN Threw
  ELSE Returned([i \in 1..Len(transformed.recs) |->
         LET item == transformed.recs[i]
         IN Put(Put(Put(item,
              columnToBin, IF Truthy(Get(item, columnToBin)) THEN Get(item, columnToBin)
                           ELSE CellOr(item, "range", "Unknown")),
              "value", IF Truthy(Get(item, "value")) THEN Get(item, "value")
                       ELSE OrZero(Get(item, "count"))),
              "count", IF Truthy(Get(item, "count")) THEN Get(item, "count")
                       ELSE Num(1))])

ProcessHistogram(data, spec) ==
  LET binX == Present(spec.transform_x)
                /\ StartsWith(Chars(spec.transform_x), Chars("bin:"))
      first == IF binX THEN spec.x ELSE spec.y
      columnToBin == IF Present(first) THEN first
                     ELSE IF Present(spec.x) THEN spec.x ELSE spec.y
      transform == IF Present(first) /\ binX THEN spec.transform_x
                   ELSE IF Present(first) \/ ~Present(spec.transform_x)
                   THEN (IF Present(spec.transform_y) THEN spec.transform_y ELSE "bin:auto")
                   ELSE spec.transform_x
  IN IF Len(data) = 0 \/ ~Present(columnToBin) THEN Returned(<<>>)
     ELSE HistogramRecords(ApplyTransform(data, columnToBin, transform), columnToBin)

\* the index of the first row of the group named k
FirstOfGroup(data, column, k) ==
  CHOOSE i \in 1..Len(data) :
    /\ GroupKey(data[i], column) = k
    /\ \A j \in 1..(i - 1) : GroupKey(data[j], column) # k

\* one row added to the record of its x value, under a series column:
\* acc[xValue][seriesValue] = (acc[xValue][seriesValue] || 0) + amount, then
\* count += 1 and, when counting, value += 1; the record's numbers are read
\* again after each assignment
StackedStep(record, seriesValue, amount, counting) ==
  LET a == Put(record, seriesValue, NAdd(OrZero(Get(record, seriesValue)), amount))
      b == Put(a, "count", NAdd(a["count"], Num(1)))
  IN IF counting THEN Put(b, "value", NAdd(b["value"], Num(1))) ELSE b

\* data.reduce(...) of the branches with a series column: the records by x
\* value, in insertion order
StackedGroups(data, spec, counting) ==
  LET f[i \in 0..Len(data)] ==
        IF i = 0 THEN <<>>
        ELSE LET k == GroupKey(data[i], spec.x)
                 amount == IF counting THEN Num(1)
                           ELSE OrZero(ParseFloatStripped(Get(data[i], spec.y)))
                 acc == f[i - 1]
             IN IF AccHas(acc, k)
                THEN [acc EXCEPT ![AccIndex(acc, k)].v =
                        StackedStep(@, GroupKey(data[i], spec.series), amount, counting)]
                ELSE Append(acc, [k |-> k, v |->
                        StackedStep(Obj(<< <<spec.x, CellOr(data[i], spec.x, "Unknown")>>,
                                           <<"count", Num(0)>>, <<"value", Num(0)>> >>),
                                    GroupKey(data[i], spec.series), amount, counting)])
  IN f[Len(data)]

\* Object.values(grouped) with if (!(seriesValue in item)) item[seriesValue] = 0
\* for every series value of the data
ZeroFilled(grouped, allSeriesValues) ==
  [i \in 1..Len(grouped) |->
     [name \in DOMAIN grouped[i].v \cup allSeriesValues |->
        IF name \in DOMAIN grouped[i].v THEN grouped[i].v[name] ELSE Num(0)]]

ProcessStackedBarChart(data, spec) ==
  IF ~Present(spec.x) \/ Len(data) = 0 THEN Returned(<<>>)
  ELSE IF \/ spec.transform_y = "count"
          \/ ~Present(spec.y)
          \/ ~\E i \in 1..Len(data) :
                Get(data[i], spec.y) # Undef /\ Get(data[i], spec.y) # Str("")
  THEN IF Present(spec.series)
       THEN Returned(ZeroFilled(ObjectEntries(StackedGroups(data, spec, TRUE)),
                                {GroupKey(data[i], spec.series) : i \in 1..Len(data)}))
       ELSE Returned(TransformCount(data, spec.x))
  ELSE IF Present(spec.series)
  THEN Returned(ZeroFilled(ObjectEntries(StackedGroups(data, spec, FALSE)),
                           {GroupKey(data[i], spec.series) : i \in 1..Len(data)}))
  ELSE LET grouped == ObjectEntries(MeanBy(data, spec.x, spec.y))
       IN Returned([i \in 1..Len(grouped) |->
            Obj(<< <<spec.x, CellOr(data[FirstOfGroup(data, spec.x, grouped[i].k)],
                                    spec.x, "Unknown")>>,
                   <<"count", Num(grouped[i].v.count)>>,
                   <<"value", grouped[i].v.sum>> >>)])

\* acc[xValue], the coerced y values of a group in row order
BoxValues(data, spec, k) ==
  LET members == SelectSeq([i \in 1..Len(data) |-> i],
                           LAMBDA i : GroupKey(data[i], spec.x) = k)
  IN [j \in 1..Len(members) |->
        OrZero(ParseFloatStripped(Get(data[members[j]], spec.y)))]

\* BoxRecord with the lower median, sorted[Math.floor((n - 1) / 2)]
BoxRecordLowerMedian(spec, name, values) ==
  LET sorted == SortNumbers(values)
      n == Len(sorted)
      q1Index == FloorDiv(n, 4)
      q3Index == FloorDiv(3 * n, 4)
      medianIndex == FloorDiv(n - 1, 2)
  IN Obj(<< <<spec.x, Str(name)>>,
            <<"min", sorted[1]>>,
            <<"q1", sorted[q1Index + 1]>>,
            <<"median", sorted[medianIndex + 1]>>,
            <<"q3", sorted[q3Index + 1]>>,
            <<"max", sorted[n]>>,
            <<"value", sorted[medianIndex + 1]>>,
            <<"count", Num(n)>> >>)

\* the record of one group: sorted[Math.floor(sorted.length * p)]
BoxRecord(spec, name, values) ==
  LET sorted == SortNumbers(values)
      n == Len(sorted)
      q1Index == FloorDiv(n, 4)
      q3Index == FloorDiv(3 * n, 4)
      medianIndex == FloorDiv(n, 2)
  IN Obj(<< <<spec.x, Str(name)>>,
            <<"min", sorted[1]>>,
            <<"q1", sorted[q1Index + 1]>>,
            <<"median", sorted[medianIndex + 1]>>,
            <<"q3", sorted[q3Index + 1]>>,
            <<"max", sorted[n]>>,
            <<"value", sorted[medianIndex + 1]>>,
            <<"count", Num(n)>> >>)

ProcessBoxChart(data, spec) ==
  IF ~Present(spec.x) \/ ~Present(spec.y) \/ Len(data) = 0 THEN Returned(<<>>)
  ELSE LET grouped == ObjectEntries(CountBy(data, spec.x))
       IN Returned([i \in 1..Len(grouped) |->
            BoxRecord(spec, grouped[i].k, BoxValues(data, spec, grouped[i].k))])

\* counts by the key `${xValue}__${yValue}`; an entry keeps the two parts
\* that key.split('__') gives back (no cell text of the model holds '__')
HeatmapCounts(data, spec) ==
  LET f[i \in 0..Len(data)] ==
        IF i = 0 THEN <<>>
        ELSE LET xValue == GroupKey(data[i], spec.x)
                 yValue == GroupKey(data[i], spec.y)
                 k == xValue \o "__" \o yValue
                 acc == f[i - 1]
             IN IF AccHas(acc, k)
                THEN [acc EXCEPT ![AccIndex(acc, k)].v = @ + 1]
                ELSE Append(acc, [k |-> k, v |-> 1, x |-> xValue, y |-> yValue])
  IN f[Len(data)]

\* no spec of the model asks for correlation_matrix
ProcessHeatmapChart(data, spec) ==
  IF ~Present(spec.x) \/ ~Present(spec.y) \/ Len(data) = 0 THEN Returned(<<>>)
  ELSE LET grouped == ObjectEntries(HeatmapCounts(data, spec))
       IN Returned([i \in 1..Len(grouped) |->
            Obj(<< <<"x", Str(grouped[i].x)>>, <<"y", Str(grouped[i].y)>>,
                   <<"value", Num(grouped[i].v)>>, <<"count", Num(grouped[i].v)>> >>)])

\* switch (spec.type) of DynamicChart
ProcessChart(data, spec) ==
  CASE spec.type \in {"pie", "donut"} -> ProcessPieChart(data, spec)
    [] spec.type \in {"bar", "horizontal_bar"} -> ProcessBarChart(data, spec)
    [] spec.type \in {"stacked_bar", "grouped_bar"} -> ProcessStackedBarChart(data, spec)
    [] spec.type = "line" -> ProcessLineChart(data, spec)
    [] spec.type = "area" -> ProcessAreaChart(data, spec)
    [] spec.type \in {"scatter", "bubble"} -> ProcessScatterChart(data, spec)
    [] spec.type = "histogram" -> ProcessHistogram(data, spec)
    [] spec.type \in {"box", "violin"} -> ProcessBoxChart(data, spec)
    [] spec.type = "heatmap" -> ProcessHeatmapChart(data, spec)
    [] spec.type = "waterfall" -> ProcessWaterfallChart(data, spec)
    [] spec.type = "funnel" -> ProcessFunnelChart(data, spec)
    [] spec.type \in {"treemap", "sunburst", "radar"} -> ProcessSpecialChart(data, spec)
    [] OTHER -> ProcessBarChart(data, spec)

\* Number(v) for a number, undefined, or a text of digits or of other characters
NumberOf(v) ==
  CASE v.t = "num" -> v
    [] v.t = "str" -> IF v.s = "" THEN Num(0)
                      ELSE IF \A i \in 1..Len(Chars(v.s)) : IsDigit(Chars(v.s)[i])
                      THEN ParseNumber(Chars(v.s)) ELSE NaN
    [] OTHER -> NaN

\* a || b || c || d
FirstTruthy(a, b, c, d) ==
  IF Truthy(a) THEN a ELSE IF Truthy(b) THEN b ELSE IF Truthy(c) THEN c ELSE d

\* the dataKey of the bars of a 'bar' chart
BarDataKey(chart) ==
  IF chart.transform_y = "sum" /\ Present(chart.y) THEN chart.y
  ELSE IF chart.transform_y = "count" \/ TitleIncludes(chart, "Count") THEN "count"
  ELSE IF Present(chart.y) THEN chart.y ELSE "value"

\* chart.data[0]?.count !== undefined ? 'count' : 'value'
HBarDataKey(data) == IF Get(data[1], "count") # Undef THEN "count" ELSE "value"

\* the callback of chart.data.map(...) of a 'horizontal_bar' chart, for the
\* item at index i - 1, with category standing for chart.x || 'category'
HorizontalItem(item, i, category, key) ==
  Put(Put(Put(Put(item, key, NumberOf(FirstTruthy(Get(item, key), Get(item, "value"),
                                                   Get(item, "count"), Num(0)))),
              category,
              Str(StringOf(FirstTruthy(Get(item, category), Get(item, "name"),
                                       Str("Item " \o ToString(i)), Undef)))),
          "value", NumberOf(FirstTruthy(Get(item, key), Get(item, "value"),
                                        Get(item, "count"), Num(0)))),
      "count", NumberOf(FirstTruthy(Get(item, key), Get(item, "value"),
                                    Get(item, "count"), Num(0))))

\* .filter(item => !isNaN(item[key]) && item[key] > 0)
\* .sort((a, b) => (b[key] || 0) - (a[key] || 0)), for the mapped items
HorizontalSorted(mapped, key) ==
  LET kept == SelectSeq(mapped, LAMBDA item : item[key].t = "num" /\ item[key].n > 0)
  IN StableSort(kept, [i \in 1..Len(kept) |-> NSub(Num(0), kept[i][key])])

\* horizontalData of a 'horizontal_bar' chart
HorizontalData(chart, data) ==
  HorizontalSorted([i \in 1..Len(data) |->
                      HorizontalItem(data[i], i, IF Present(chart.x) THEN chart.x ELSE "category",
                                     HBarDataKey(data))],
                   HBarDataKey(data))

\* the dataKey and the data of the <Bar> element the renderer returns for
\* a bar, horizontal_bar or histogram chart with data
BarsOf(chart, data) ==
  CASE chart.type = "bar" -> [dataKey |-> BarDataKey(chart), data |-> data]
    [] chart.type = "horizontal_bar" ->
         IF HorizontalData(chart, data) = <<>> THEN NoBars
         ELSE [dataKey |-> HBarDataKey(data), data |-> HorizontalData(chart, data)]
    [] chart.type = "histogram" -> [dataKey |-> "count", data |-> data]
    [] OTHER -> NoBars

\* what EnhancedChartRenderer returns for a processed chart
EnhancedChartRenderer(chart, chartData) ==
  IF Len(chartData) = 0 THEN "No data available for visualization"
  ELSE IF chart.type = "horizontal_bar" /\ HorizontalData(chart, chartData) = <<>>
  THEN "No data available for horizontal bar chart"
  ELSE "chart"

\* what DynamicChart puts on screen for its one spec: its own placeholder
\* when there are no rows, else the rendering of the processed chart; an
\* exception thrown while processing escapes the render
Rendering(data, chart, chartData) ==
  IF chartData.threw THEN "error"
  ELSE IF Len(data) = 0 THEN "No visualization data available"
  ELSE EnhancedChartRenderer(chart, chartData.recs)

\* the bars on screen
Bars(data, chart, chartData) ==
  IF chartData.threw \/ Len(data) = 0 \/ Len(chartData.recs) = 0 THEN NoBars
  ELSE BarsOf(chart, chartData.recs)

(***************************************************************************)
(* The chart view: rows arrive, then DynamicChart processes them under one *)
(* visualization spec and hands the chart to EnhancedChartRenderer.        *)
(***************************************************************************)
MaxChartRows == 2

VisSpec(type, x, y, series, title, transform_x, transform_y) ==
  [type |-> type, x |-> x, y |-> y, series |-> series, title |-> title,
   transform_x |-> transform_x, transform_y |-> transform_y, transform |-> Null]

\* a spec that also carries the legacy transform field
WithTransform(spec, transform) == [spec EXCEPT !.transform = transform]

\* the cases of the switch of DynamicChart, and "gauge" for its default
ChartTypes ==
  {"pie", "donut", "bar", "horizontal_bar", "stacked_bar", "grouped_bar", "line",
   "area", "scatter", "bubble", "histogram", "box", "violin", "heatmap",
   "waterfall", "funnel", "treemap", "sunburst", "radar", "gauge"}

\* every chart type with each axis present or null
AxisSpecs ==
  {VisSpec(type, x, y, Null, "Budget", Null, ty) :
     type \in ChartTypes, x \in {Null, "status"}, y \in {Null, "budget"},
     ty \in {Null, "count"}}

\* grouped aggregates of pie and bar charts
AggregateSpecs ==
  {VisSpec(type, "status", y, Null, title, tx, ty) :
     type \in {"pie", "donut", "bar", "horizontal_bar"}, y \in {Null, "budget"},
     title \in {"Budget", "Task Count"}, tx \in {Null, "topk:1"},
     ty \in {Null, "count", "sum", "mean", "aggregate_sum", "aggregate_mean"}}

\* scatter plots over numeric and text-like columns
ScatterSpecs ==
  {VisSpec(type, x, y, series, "Budget", Null, ty) :
     type \in {"scatter", "bubble"},
     x \in {"budget", "wp_name", "description", "Name"}, y \in {"budget", "label"},
     series \in {Null, "status"}, ty \in {Null, "sum"}}

\* bar specs with the legacy transform field next to transform_x / transform_y
LegacySpecs ==
  {WithTransform(VisSpec("bar", "status", y, Null, title, tx, ty), transform) :
     y \in {Null, "budget"}, title \in {"Budget", "Task Count"},
     tx \in {Null, "topk:1"}, ty \in {Null, "mean"},
     transform \in {"count", "sum", "aggregate_mean", "topk:1"}}

\* histograms with a bin transform on x
HistogramSpecs ==
  {VisSpec("histogram", x, y, Null, "Budget", tx, Null) :
     x \in {Null, "budget"}, y \in {Null, "status"}, tx \in {"bin:2", "bin:3"}}

SpecDomain ==
  AxisSpecs \cup AggregateSpecs \cup LegacySpecs \cup HistogramSpecs
    \cup {sp \in ScatterSpecs :
            sp.series = Null \/ IsTextColumn(sp.x) \/ IsTextColumn(sp.y)}

\* datasets longer than MaxChartRows: the statuses Done, Done, Open; one
\* group with the budgets 1..8; two groups of five and three budgets
Examples ==
  { << Row(Str("Done"), Num(1)), Row(Str("Done"), Num(4)), Row(Str("Open"), Str("$3")) >>,
    [i \in 1..8 |-> Row(Str("Done"), Num(i))],
    << Row(Str("Open"), Num(4)), Row(Str("Done"), Num(4)), Row(Str("Open"), Num(1)),
       Row(Str("Open"), Str("$3")), Row(Str("Done"), Num(0)), Row(Str("Open"), Num(0)),
       Row(Str("Done"), Num(1)), Row(Str("Open"), Num(1)) >> }

\* a row arrives from the API
AddChartRow ==
  /\ call.fn = "none"
  /\ Len(rows) < MaxChartRows
  /\ \E s \in StatusValues, b \in BudgetValues : rows' = Append(rows, Row(s, b))
  /\ UNCHANGED <<call, out, rendered, bars>>
  /\ UNCHANGED uiVars

\* a whole table arrives from the API
LoadExample ==
  /\ call.fn = "none"
  /\ rows = <<>>
  /\ \E example \in Examples : rows' = example
  /\ UNCHANGED <<call, out, rendered, bars>>
  /\ UNCHANGED uiVars

\* <DynamicChart data={rows} specs={[spec]} />
Render ==
  /\ call.fn = "none"
  /\ \E spec \in SpecDomain :
       /\ call' = [fn |-> "DynamicChart", spec |-> spec]
       /\ out' = ProcessChart(rows, spec)
       /\ rendered' = Rendering(rows, spec, out')
       /\ bars' = Bars(rows, spec, out')
  /\ UNCHANGED rows
  /\ UNCHANGED uiVars

NextChart == AddChartRow \/ LoadExample \/ Render

SpecChart == Init /\ [][NextChart]_vars

(***************************************************************************)
(* Stacked and grouped bars: rows with a category for the x axis, a status *)
(* for the series (one of the statuses is spelled "count", like a field of *)
(* the records) and a budget that may be missing.                          *)
(***************************************************************************)
MaxStackedRows == 3

StackedRows ==
  {Obj(<< <<"priority", Str(p)>>, <<"status", s>>, <<"budget", b>> >>) :
     p \in {"High", "Low"}, s \in {Str("Done"), Str("count"), Undef}, b \in {Num(4), Undef}}

StackedSpecs ==
  {VisSpec(type, "priority", y, "status", "Budget", Null, ty) :
     type \in {"stacked_bar", "grouped_bar"}, y \in {Null, "budget"},
     ty \in {Null, "count", "sum"}}

AddStackedRow ==
  /\ call.fn = "none"
  /\ Len(rows) < MaxStackedRows
  /\ \E row \in StackedRows : rows' = Append(rows, row)
  /\ UNCHANGED <<call, out, rendered, bars>>
  /\ UNCHANGED uiVars

\* DynamicChart given the rows and one stacked_bar or grouped_bar spec
RenderStacked ==
  /\ call.fn = "none"
  /\ \E spec \in StackedSpecs :
       /\ call' = [fn |-> "DynamicChart", spec |-> spec]
       /\ out' = ProcessChart(rows, spec)
       /\ rendered' = Rendering(rows, spec, out')
       /\ bars' = Bars(rows, spec, out')
  /\ UNCHANGED rows
  /\ UNCHANGED uiVars

NextStacked == AddStackedRow \/ RenderStacked

SpecStacked == Init /\ [][NextStacked]_vars

(***************************************************************************)
(* The table component (progress-chart.tsx, EnhancedWorkPackageTable):     *)
(* the Custom JSON dialog with generateFromJson, and generateVisualization *)
(* with the call of the external visualization service.                    *)
(*                                                                         *)
(* A parsed JSON value is a record with a field t: an object               *)
(* [t |-> "object", props |-> names to values], an array                   *)
(* [t |-> "array", items |-> sequence], null, or a string or number as     *)
(* above.  Each handler runs up to its next await in one step, and the     *)
(* component is rendered again before the next event is handled.           *)
(***************************************************************************)
JsObject(props) == [t |-> "object", props |-> Obj(props)]

JsArray(items) == [t |-> "array", items |-> items]

JsNull == [t |-> "null"]

\* ToBoolean of a parsed JSON value
JsTruthy(v) == v.t \in {"object", "array"} \/ (v.t \in {"num", "str"} /\ Truthy(v))

\* v.name for a value v that is not null or undefined
Prop(v, name) == IF v.t = "object" THEN Get(v.props, name) ELSE Undef

\* a chart specification as the JSON object { type, x, y }, a null or absent
\* member left out
ChartSpec(type, x, y) ==
  JsObject(SelectSeq(<< <<"type", Str(type)>>, <<"x", Str(x)>>, <<"y", Str(y)>> >>,
                     LAMBDA m : m[2] # Str(Null)))

\* a value, or the error thrown instead of it
Value(v) == [ok |-> TRUE, value |-> v, message |-> ""]

Thrown(message) == [ok |-> FALSE, value |-> JsNull, message |-> message]

\* JSON.parse, as the table of the texts of the model and what each parses
\* to; the message of a SyntaxError is given as "Unexpected token"
JsonTable ==
  << <<"[{\"type\":\"bar\",\"x\":\"status\"},{\"x\":\"budget\"},{\"type\":\"pie\",\"x\":\"status\"}]",
       Value(JsArray(<< ChartSpec("bar", "status", Null), ChartSpec(Null, "budget", Null),
                        ChartSpec("pie", "status", Null) >>))>>,
     <<"[{\"type\":\"pie\",\"x\":\"status\"}]",
       Value(JsArray(<< ChartSpec("pie", "status", Null) >>))>>,
     <<"[{\"x\":\"budget\"}]", Value(JsArray(<< ChartSpec(Null, "budget", Null) >>))>>,
     <<"[{\"type\":\"\"},5]", Value(JsArray(<< ChartSpec("", Null, Null), Num(5) >>))>>,
     <<"[]", Value(JsArray(<<>>))>>,
     <<"[null]", Value(JsArray(<< JsNull >>))>>,
     <<"[{\"type\":\"bar\",\"x\":\"status\"},null]",
       Value(JsArray(<< ChartSpec("bar", "status", Null), JsNull >>))>>,
     <<"{\"type\":\"bar\"}", Value(ChartSpec("bar", Null, Null))>>,
     <<"5", Value(Num(5))>>,
     <<"{\"visualizations\":[{\"type\":\"bar\",\"x\":\"status\"}]}",
       Value(JsObject(<< <<"visualizations", JsArray(<< ChartSpec("bar", "status", Null) >>)>> >>))>>,
     <<"\"{\\\"visualizations\\\":[{\\\"type\\\":\\\"bar\\\",\\\"x\\\":\\\"status\\\"}]}\"",
       Value(Str("{\"visualizations\":[{\"type\":\"bar\",\"x\":\"status\"}]}"))>>,
     <<"\"status by budget\"", Value(Str("status by budget"))>>,
     <<"{\"visualizations\":[{\"type\":\"scatter\",\"x\":\"wp_name\",\"y\":\"budget\"},{\"type\":\"pie\",\"x\":\"status\"}]}",
       Value(JsObject(<< <<"visualizations",
                           JsArray(<< ChartSpec("scatter", "wp_name", "budget"),
                                      ChartSpec("pie", "status", Null) >>)>> >>))>>,
     <<"{\"visualizations\":[{\"type\":\"box\",\"x\":\"status\",\"y\":\"budget\"}]}",
       Value(JsObject(<< <<"visualizations",
                           JsArray(<< ChartSpec("box", "status", "budget") >>)>> >>))>>,
     <<"{\"visualizations\":[null]}",
       Value(JsObject(<< <<"visualizations", JsArray(<< JsNull >>)>> >>))>>,
     <<"{\"visualizations\":\"none\"}",
       Value(JsObject(<< <<"visualizations", Str("none")>> >>))>>,
     <<"{\"error\":\"busy\"}", Value(JsObject(<< <<"error", Str("busy")>> >>))>>,
     <<"null", Value(JsNull)>>,
     <<"", Thrown("Unexpected end of JSON input")>>,
     <<" ", Thrown("Unexpected end of JSON input")>>,
     <<"[{\"type\":\"bar\"", Thrown("Unexpected token")>>,
     <<"status by budget", Thrown("Unexpected token")>> >>

JsonParse(text) ==
  JsonTable[CHOOSE i \in 1..Len(JsonTable) : JsonTable[i][1] = text][2]

\* the texts a user can leave in the textarea and the service can send as a
\* body; text.trim() is empty for "" and " "
JsonTexts == {JsonTable[i][1] : i \in 1..Len(JsonTable)}

Trimmed(text) == IF text = " " THEN "" ELSE text

\* toast({ title: "Error", description: prefix + error.message, variant: "destructive" })
ErrorToast(prefix, message) ==
  [title |-> "Error", description |-> prefix \o message, variant |-> "destructive"]

\* toast({ title, description })
Toast(title, description) ==
  [title |-> title, description |-> description, variant |-> "default"]

\* spec.type of an item of the parsed array: reading it off null throws
TypeError == "Cannot read properties of null (reading 'type')"

\* parsedSpecs.filter(spec => !spec.type ? false : true) with every item kept
ValidSpecsUnfiltered(items) ==
  IF \E i \in 1..Len(items) : items[i] = JsNull THEN Thrown(TypeError)
  ELSE Value(JsArray(items))

\* parsedSpecs.filter(spec => !spec.type ? false : true)
ValidSpecs(items) ==
  IF \E i \in 1..Len(items) : items[i] = JsNull THEN Thrown(TypeError)
  ELSE Value(JsArray(SelectSeq(items, LAMBDA spec : JsTruthy(Prop(spec, "type")))))

\* the try block of generateFromJson up to the state updates: the specs to
\* show, or the error thrown
CheckedSpecs(parsed) ==
  IF ~parsed.ok THEN parsed
  ELSE IF parsed.value.t # "array"
  THEN Thrown("Chart JSON must be an array of chart specifications")
  ELSE IF ~ValidSpecs(parsed.value.items).ok THEN ValidSpecs(parsed.value.items)
  ELSE IF Len(ValidSpecs(parsed.value.items).value.items) = 0
  THEN Thrown("No valid chart specifications found")
  ELSE ValidSpecs(parsed.value.items)

\* the catch block of generateFromJson with the dialog reset as on success
JsonRejectedClearingDialog(t) == [t EXCEPT !.showJsonDialog = FALSE, !.chartJson = ""]

\* the catch block of generateFromJson: no state update
JsonRejected(t) == t

\* generateFromJson, the handler of the dialog's Generate Charts button
\* (disabled while chartJson.trim() is empty)
GenerateFromJson ==
  /\ table.showJsonDialog /\ Trimmed(table.chartJson) # ""
  /\ LET checked == CheckedSpecs(JsonParse(table.chartJson))
     IN IF checked.ok
        THEN /\ table' = [table EXCEPT !.visualizationSpecs = checked.value.items,
                                       !.showVisualizations = TRUE,
                                       !.showJsonDialog = FALSE,
                                       !.chartJson = ""]
             /\ event' = [name |-> "generateFromJson",
                          toasts |-> << Toast("Success", "Generated "
                                          \o ToString(Len(checked.value.items))
                                          \o " chart(s) from JSON") >>]
        ELSE /\ table' = JsonRejected(table)
             /\ event' = [name |-> "generateFromJson",
                          toasts |-> << ErrorToast("Invalid JSON format: ", checked.message) >>]
  /\ UNCHANGED <<rows, call, out, rendered, bars, calls, chat, genie, storage, viewer, app>>

\* handleJsonVisualization, the Custom JSON button
HandleJsonVisualization ==
  /\ table' = [table EXCEPT !.showJsonDialog = TRUE]
  /\ event' = [name |-> "handleJsonVisualization", toasts |-> <<>>]
  /\ UNCHANGED <<rows, call, out, rendered, bars, calls, chat, genie, storage, viewer, app>>

\* the textarea of the Custom JSON dialog
EditChartJson ==
  /\ table.showJsonDialog
  /\ \E text \in JsonTexts : table' = [table EXCEPT !.chartJson = text]
  /\ event' = [name |-> "setChartJson", toasts |-> <<>>]
  /\ UNCHANGED <<rows, call, out, rendered, bars, calls, chat, genie, storage, viewer, app>>

\* the Cancel button of the Custom JSON dialog, which also clears the text,
\* and onOpenChange(false), which does not
CloseJsonDialog ==
  /\ table.showJsonDialog
  /\ \E clear \in BOOLEAN :
       table' = [table EXCEPT !.showJsonDialog = FALSE,
                              !.chartJson = IF clear THEN "" ELSE @]
  /\ event' = [name |-> "closeJsonDialog", toasts |-> <<>>]
  /\ UNCHANGED <<rows, call, out, rendered, bars, calls, chat, genie, storage, viewer, app>>

\* the Hide Charts button
HideCharts ==
  /\ table.showVisualizations
  /\ table' = [table EXCEPT !.showVisualizations = FALSE]
  /\ event' = [name |-> "hideCharts", toasts |-> <<>>]
  /\ UNCHANGED <<rows, call, out, rendered, bars, calls, chat, genie, storage, viewer, app>>

\* v && subs.some(sub => v.includes(sub)), for a member v that is a string
\* or absent
TextIncludes(v, subs) ==
  v.t = "str" /\ v.s # "" /\ \E sub \in subs : Includes(Chars(v.s), Chars(sub))

\* the filter of validateChartSpecs for one spec; Number(spec.y) is NaN for
\* a text that holds a character other than a digit
KeepsChartSpec(spec) ==
  /\ Prop(spec, "type") = Str("scatter") =>
       ~(\/ TextIncludes(Prop(spec, "x"), {"description", "name", "label"})
         \/ TextIncludes(Prop(spec, "y"), {"description", "name", "label"}))
  /\ Prop(spec, "type") = Str("histogram") =>
       ~(/\ TextIncludes(IF JsTruthy(Prop(spec, "x")) THEN Prop(spec, "x") ELSE Prop(spec, "y"),
                         {"description", "name", "label"})
         /\ ~(\/ Prop(spec, "transform_x") = Str("count")
              \/ Prop(spec, "transform_y") = Str("count")
              \/ Prop(spec, "transform") = Str("count")
              \/ (Prop(spec, "transform_x").t = "str"
                  /\ StartsWith(Chars(Prop(spec, "transform_x").s), Chars("topk:")))))
  /\ Prop(spec, "type") \in {Str("box"), Str("violin")} =>
       ~(\/ ~(\/ TextIncludes(Prop(spec, "y"), {"sum", "count"})
              \/ (Prop(spec, "y").t = "str" /\ Prop(spec, "y").s # ""
                  /\ \A i \in 1..Len(Chars(Prop(spec, "y").s)) :
                       IsDigit(Chars(Prop(spec, "y").s)[i])))
         \/ (TextIncludes(Prop(spec, "x"), {"name"}) /\ TextIncludes(Prop(spec, "y"), {"sum"})))

\* validateChartSpecs(specs)
ValidateChartSpecs(items) ==
  IF \E i \in 1..Len(items) : items[i] = JsNull THEN Thrown(TypeError)
  ELSE Value(JsArray(SelectSeq(items, KeepsChartSpec)))

\* the check of the response's structure and validateChartSpecs
ResultSpecs(result) ==
  IF JsTruthy(result) /\ JsTruthy(Prop(result, "visualizations"))
     /\ Prop(result, "visualizations").t = "array"
  THEN ValidateChartSpecs(Prop(result, "visualizations").items)
  ELSE Thrown("Invalid response format from AI backend")

\* the try block of generateVisualization after `await response.json()`
\* settled with result: the specs to show, or the error thrown
ServiceSpecs(result) ==
  IF ~result.ok THEN result
  ELSE IF result.value.t # "str" THEN ResultSpecs(result.value)
  ELSE IF ~JsonParse(result.value.s).ok
  THEN Thrown("Invalid JSON response from AI backend")
  ELSE ResultSpecs(JsonParse(result.value.s).value)

\* disabled={isGeneratingViz}, on the Generate Charts button of the toolbar
\* and on the Generate Charts button of the message dialog
\* the two buttons never disabled
GenerateNeverDisabled(t) == FALSE

GenerateDisabled(t) == t.isGeneratingViz

\* the catch and finally blocks of generateVisualization, with the charts
\* hidden as well
GenerationFailedHidingCharts(t) ==
  [t EXCEPT !.isGeneratingViz = FALSE, !.showVisualizations = FALSE]

\* the catch and finally blocks of generateVisualization
GenerationFailed(t) == [t EXCEPT !.isGeneratingViz = FALSE]

\* calls without its i-th element
RemoveCall(i) == SubSeq(calls, 1, i - 1) \o SubSeq(calls, i + 1, Len(calls))

\* a call of generateVisualization ends in its catch block
FailCall(i, message) ==
  /\ table' = GenerationFailed(table)
  /\ calls' = RemoveCall(i)
  /\ event' = [name |-> "generateVisualization",
               toasts |-> << ErrorToast("Failed to generate visualization: ", message) >>]

\* the work-package rows arrive as the data prop
ReceiveData ==
  /\ rows = <<>>
  /\ rows' \in {example \in Examples : Len(example) = 3}
  /\ event' = [name |-> "data", toasts |-> <<>>]
  /\ UNCHANGED <<call, out, rendered, bars, table, calls, chat, genie, storage, viewer, app>>

\* handleGenerateVisualization, the Generate Charts button of the toolbar
HandleGenerateVisualization ==
  /\ ~GenerateDisabled(table)
  /\ table' = [table EXCEPT !.showMessageDialog = TRUE]
  /\ event' = [name |-> "handleGenerateVisualization", toasts |-> <<>>]
  /\ UNCHANGED <<rows, call, out, rendered, bars, calls, chat, genie, storage, viewer, app>>

\* the Cancel button of the message dialog and onOpenChange(false)
CloseMessageDialog ==
  /\ table.showMessageDialog
  /\ table' = [table EXCEPT !.showMessageDialog = FALSE]
  /\ event' = [name |-> "closeMessageDialog", toasts |-> <<>>]
  /\ UNCHANGED <<rows, call, out, rendered, bars, calls, chat, genie, storage, viewer, app>>

\* the Generate Charts button of the message dialog: the dialog is closed
\* and generateVisualization runs up to `await fetch(...)`
GenerateVisualization ==
  /\ table.showMessageDialog /\ ~GenerateDisabled(table)
  /\ IF Len(rows) = 0
     THEN /\ table' = [table EXCEPT !.showMessageDialog = FALSE]
          /\ event' = [name |-> "generateVisualization",
                       toasts |-> << [title |-> "No Data",
                                      description |-> "Cannot generate visualization without data",
                                      variant |-> "destructive"] >>]
          /\ UNCHANGED calls
     ELSE /\ table' = [table EXCEPT !.showMessageDialog = FALSE, !.isGeneratingViz = TRUE]
          /\ calls' = Append(calls, [phase |-> "fetch", body |-> ""])
          /\ event' = [name |-> "generateVisualization", toasts |-> <<>>]
  /\ UNCHANGED <<rows, call, out, rendered, bars, chat, genie, storage, viewer, app>>

\* `await fetch(...)` settles: the request failed, or a response arrived
\* with a status that is OK (its body is read by response.json()) or not OK
\* (its body is read by response.text())
ReceiveResponse ==
  /\ \E i \in 1..Len(calls) :
       /\ calls[i].phase = "fetch"
       /\ \/ FailCall(i, "Failed to fetch")
          \/ /\ \E phase \in {"json", "text"}, body \in JsonTexts :
                  calls' = [calls EXCEPT ![i] = [phase |-> phase, body |-> body]]
             /\ event' = [name |-> "response", toasts |-> <<>>]
             /\ UNCHANGED table
  /\ UNCHANGED <<rows, call, out, rendered, bars, chat, genie, storage, viewer, app>>

\* `await response.text()` or `await response.json()` settles and the call
\* runs to its end
ReceiveBody ==
  /\ \E i \in 1..Len(calls) :
       \/ /\ calls[i].phase = "text"
          /\ FailCall(i, "AI backend error: 500 - " \o calls[i].body)
       \/ /\ calls[i].phase = "json"
          /\ IF ServiceSpecs(JsonParse(calls[i].body)).ok
             THEN /\ table' = [table EXCEPT
                                 !.visualizationSpecs =
                                    ServiceSpecs(JsonParse(calls[i].body)).value.items,
                                 !.showVisualizations = TRUE,
                                 !.isGeneratingViz = FALSE]
                  /\ calls' = RemoveCall(i)
                  /\ event' = [name |-> "generateVisualization",
                               toasts |-> << Toast("Visualization Generated", "Generated "
                                    \o ToString(Len(ServiceSpecs(JsonParse(calls[i].body)).value.items))
                                    \o " visualization(s)") >>]
             ELSE FailCall(i, ServiceSpecs(JsonParse(calls[i].body)).message)
  /\ UNCHANGED <<rows, call, out, rendered, bars, chat, genie, storage, viewer, app>>

NextTable ==
  \/ ReceiveData \/ HandleJsonVisualization \/ EditChartJson \/ CloseJsonDialog
  \/ GenerateFromJson \/ HideCharts \/ HandleGenerateVisualization
  \/ CloseMessageDialog \/ GenerateVisualization \/ ReceiveResponse \/ ReceiveBody

SpecTable == Init /\ [][NextTable]_vars

(***************************************************************************)
(* The chat message (chat-message.tsx, ChatMessage): its Save Chart        *)
(* buttons run handleSaveChart, which stores the chart in the browser with *)
(* unifiedStorage.addChart and mirrors it to POST /api/charts/save.  Both  *)
(* collaborators are modelled at their call sites by their outcomes: the   *)
(* call returns or throws, the request resolves or rejects.  The handler   *)
(* runs up to its await in one step and from the settled await to its end  *)
(* in another; the message is rendered again between two events.           *)
(***************************************************************************)
MaxSavedCharts == 2

\* the conversationId prop: missing, 0, or the id of a conversation
ConversationIds == {Undef, Num(0), Num(1), Num(2)}

\* the chart configs of the two Save Chart buttons
ChartConfigs == {"pie", "gantt"}

\* toast({ title: "Chart Saved", description: "Chart has been saved to conversation" })
SavedToast == Toast("Chart Saved", "Chart has been saved to conversation")

\* toast({ title: "Error", description: "Failed to save chart", variant: "destructive" })
SaveFailedToast ==
  [title |-> "Error", description |-> "Failed to save chart", variant |-> "destructive"]

\* the handler after the awaited request, with a rejection that reaches the
\* outer catch
SaveOutcomeUncaught(rejected) ==
  IF rejected THEN [toasts |-> <<SaveFailedToast>>, dispatched |-> 0]
  ELSE [toasts |-> <<SavedToast>>, dispatched |-> 1]

\* the handler after the awaited request: a rejection is caught and logged
\* by the inner try, and either way the toast is raised and chartSaved is
\* dispatched
SaveOutcome(rejected) == [toasts |-> <<SavedToast>>, dispatched |-> 1]

\* the parent renders the message with a conversation id
SetConversation ==
  /\ \E id \in ConversationIds : chat' = [chat EXCEPT !.conversationId = id]
  /\ event' = [name |-> "render", toasts |-> <<>>]
  /\ UNCHANGED <<rows, call, out, rendered, bars, table, calls, genie, storage, viewer, app>>

\* a Save Chart button (disabled while savingChart): handleSaveChart up to
\* `await apiRequest(...)`, or to its end when it throws before: without a
\* conversation id, or when unifiedStorage.addChart throws
HandleSaveChart ==
  /\ ~chat.savingChart
  /\ Len(chat.stored) < MaxSavedCharts
  /\ \E type \in ChartConfigs, added \in BOOLEAN :
       IF ~Truthy(chat.conversationId) \/ ~added
       THEN /\ chat' = [chat EXCEPT !.savingChart = FALSE]
            /\ event' = [name |-> "handleSaveChart", toasts |-> <<SaveFailedToast>>]
            /\ UNCHANGED calls
       ELSE /\ chat' = [chat EXCEPT !.savingChart = TRUE,
                                     !.stored = Append(@, [conversation_id |-> chat.conversationId,
                                                           chart_config |-> type])]
            /\ calls' = Append(calls, [phase |-> "save",
                                       body |-> [conversation_id |-> chat.conversationId,
                                                 chart_config |-> type]])
            /\ event' = [name |-> "handleSaveChart", toasts |-> <<>>]
  /\ UNCHANGED <<rows, call, out, rendered, bars, table, genie, storage, viewer, app>>

\* `await apiRequest("POST", "/api/charts/save", ...)` settles and the
\* handler runs to its end, through `finally`
ReceiveSaveResponse ==
  /\ calls # <<>>
  /\ calls[1].phase = "save"
  /\ \E rejected \in BOOLEAN :
       /\ chat' = [chat EXCEPT !.savingChart = FALSE,
                                !.dispatched = @ + SaveOutcome(rejected).dispatched,
                                !.saved = IF rejected THEN @ ELSE Append(@, calls[1].body)]
       /\ event' = [name |-> IF rejected THEN "saveRejected" ELSE "saveResolved",
                    toasts |-> SaveOutcome(rejected).toasts]
  /\ calls' = Tail(calls)
  /\ UNCHANGED <<rows, call, out, rendered, bars, table, genie, storage, viewer, app>>

NextChat == SetConversation \/ HandleSaveChart \/ ReceiveSaveResponse

SpecChat == Init /\ [][NextChat]_vars

(***************************************************************************)
(* The chat hook (useChat): the messages the query fetched for the current *)
(* conversation are merged with the charts of the savedCharts item of      *)
(* localStorage.  The merge is memoized: it is computed again when the     *)
(* fetched messages or the current conversation change and when a          *)
(* chartSaved or storage event arrives.  Times are small integers.         *)
(***************************************************************************)
MaxMessages == 2

MaxStoredCharts == 2

MaxConversations == 2

\* the creation times of messages and charts
Times == 1..2

\* chartMessages: a saved chart in message format
ChartMessage(chart, currentConversationId) ==
  [id |-> [kind |-> "chart", n |-> chart.id], conversationId |-> currentConversationId,
   messageType |-> "visualization", createdAt |-> chart.savedAt]

\* the merge with no filter on the conversation of a chart
MergeAllCharts(apiMessages, savedCharts, currentConversationId) ==
  IF currentConversationId = NoConversation THEN <<>>
  ELSE StableSort(apiMessages \o [i \in 1..Len(savedCharts) |->
                                    ChartMessage(savedCharts[i], currentConversationId)],
                  [i \in 1..(Len(apiMessages) + Len(savedCharts)) |->
                     Num((apiMessages \o [j \in 1..Len(savedCharts) |->
                            ChartMessage(savedCharts[j], currentConversationId)])[i].createdAt)])

\* the useMemo of messages: [] without a conversation, else the fetched
\* messages and the charts of the conversation, sorted by creation time
MergeMessages(apiMessages, savedCharts, currentConversationId) ==
  MergeAllCharts(apiMessages,
                 SelectSeq(savedCharts,
                           LAMBDA chart : chart.conversationId = currentConversationId),
                 currentConversationId)

\* the hook rendered again with the message list computed again
Rebuilt(hook, savedCharts) ==
  [hook EXCEPT !.messages =
     MergeMessages(hook.apiMessages, savedCharts, hook.currentConversationId)]

\* loadConversation(id): the query key changes and has no data yet
LoadConversation ==
  /\ \E id \in 1..MaxConversations :
       /\ id # genie.currentConversationId
       /\ genie' = Rebuilt([genie EXCEPT !.currentConversationId = id,
                                         !.apiMessages = <<>>], storage)
  /\ UNCHANGED <<rows, call, out, rendered, bars, table, calls, event, chat, storage, viewer, app>>

\* a message is stored on the backend
StoreMessage ==
  /\ Len(genie.server) < MaxMessages
  /\ \E c \in 1..MaxConversations, t \in Times :
       genie' = [genie EXCEPT !.server =
                   Append(@, [id |-> [kind |-> "message", n |-> Len(genie.server) + 1],
                              conversationId |-> c, messageType |-> "text",
                              createdAt |-> t])]
  /\ UNCHANGED <<rows, call, out, rendered, bars, table, calls, event, chat, storage, viewer, app>>

\* the query of ["/api/conversations", currentConversationId, "messages"]
\* settles (enabled: !!currentConversationId)
FetchMessages ==
  /\ genie.currentConversationId # NoConversation
  /\ genie' = Rebuilt([genie EXCEPT !.apiMessages =
                          SelectSeq(genie.server, LAMBDA m :
                            m.conversationId = genie.currentConversationId)], storage)
  /\ UNCHANGED <<rows, call, out, rendered, bars, table, calls, event, chat, storage, viewer, app>>

\* a chart is written to the savedCharts item by a save elsewhere
StoreChart ==
  /\ Len(storage) < MaxStoredCharts
  /\ \E c \in 1..MaxConversations, t \in Times :
       storage' = Append(storage, [id |-> Len(storage) + 1, conversationId |-> c,
                                   savedAt |-> t])
  /\ UNCHANGED <<rows, call, out, rendered, bars, table, calls, event, chat, genie, viewer, app>>

\* handleChartSaved / handleStorageChange: setLocalStorageKey(prev => prev + 1)
HandleChartSaved ==
  /\ genie' = Rebuilt(genie, storage)
  /\ UNCHANGED <<rows, call, out, rendered, bars, table, calls, event, chat, storage, viewer, app>>

NextMessages ==
  LoadConversation \/ StoreMessage \/ FetchMessages \/ StoreChart \/ HandleChartSaved

SpecMessages == Init /\ [][NextMessages]_vars

(***************************************************************************)
(* date_group: the bucket key that each place of dynamic-chart.tsx gives a *)
(* parsed date.  A date text is read by new Date(text); the dates of the   *)
(* model are read in UTC, where the local getters (getFullYear, getMonth), *)
(* toLocaleDateString and toISOString name the same calendar day.          *)
(***************************************************************************)
MaxDateRows == 2

\* new Date(text): the calendar day of the texts of the model, year 0 for an
\* Invalid Date
DateOf(text) ==
  CASE text = "2024-03-15" -> [year |-> 2024, month |-> 3, day |-> 15]
    [] text = "2024-03-15T10:00:00Z" -> [year |-> 2024, month |-> 3, day |-> 15]
    [] text = "2023-12-31" -> [year |-> 2023, month |-> 12, day |-> 31]
    [] text = "July 4, 2024" -> [year |-> 2024, month |-> 7, day |-> 4]
    [] OTHER -> [year |-> 0, month |-> 0, day |-> 0]

DateTexts == {"2024-03-15", "2024-03-15T10:00:00Z", "2023-12-31", "July 4, 2024", "TBD"}

\* !isNaN(date.getTime())
ValidDate(text) == DateOf(text).year # 0

\* the month of toLocaleDateString('en-US', { month: 'short' })
ShortMonth(month) ==
  <<"Jan", "Feb", "Mar", "Apr", "May", "Jun", "Jul", "Aug", "Sep", "Oct", "Nov",
    "Dec">>[month]

\* two digits, as in toISOString
TwoDigits(n) == IF n < 10 THEN "0" \o ToString(n) ELSE ToString(n)

\* date.getFullYear().toString()
YearKey(date) == ToString(date.year)

\* `${date.getFullYear()}-Q${Math.ceil((date.getMonth() + 1) / 3)}`
QuarterKey(date) == ToString(date.year) \o "-Q" \o ToString((date.month + 2) \div 3)

\* date.toLocaleDateString('en-US', { month: 'short', year: 'numeric' })
MonthYearKey(date) == ShortMonth(date.month) \o " " \o ToString(date.year)

\* date.toISOString().split('T')[0]
DayKey(date) ==
  ToString(date.year) \o "-" \o TwoDigits(date.month) \o "-" \o TwoDigits(date.day)

\* the switch of applyTransform (1233-1248) for the characters of groupType
\* and a valid date: year, quarter, month_year, day, and the raw value by
\* default
TransformDateKey(groupType, dateValue) ==
  CASE groupType = Chars("year") -> YearKey(DateOf(dateValue))
    [] groupType = Chars("quarter") -> QuarterKey(DateOf(dateValue))
    [] groupType = Chars("month_year") -> MonthYearKey(DateOf(dateValue))
    [] groupType = Chars("day") -> DayKey(DateOf(dateValue))
    [] OTHER -> dateValue

\* the switch of the single-series branch of processLineChart (1925-1941):
\* year, quarter, month_year and month, and the raw value by default
LineDateKey(groupType, dateValue) ==
  CASE groupType = Chars("year") -> YearKey(DateOf(dateValue))
    [] groupType = Chars("quarter") -> QuarterKey(DateOf(dateValue))
    [] groupType \in {Chars("month_year"), Chars("month")} -> MonthYearKey(DateOf(dateValue))
    [] OTHER -> dateValue

\* the switch of the series branch of processLineChart (1852-1866): no
\* default, xKey keeps the raw value
SeriesLineDateKey(groupType, dateValue) ==
  CASE groupType = Chars("year") -> YearKey(DateOf(dateValue))
    [] groupType = Chars("quarter") -> QuarterKey(DateOf(dateValue))
    [] groupType \in {Chars("month_year"), Chars("month")} -> MonthYearKey(DateOf(dateValue))
    [] OTHER -> dateValue

\* the switch of processScatterChart (2218-2229): no default, xValue keeps
\* the raw value
ScatterDateKey(groupType, dateValue) ==
  CASE groupType = Chars("year") -> YearKey(DateOf(dateValue))
    [] groupType = Chars("quarter") -> QuarterKey(DateOf(dateValue))
    [] groupType \in {Chars("month"), Chars("month_year")} -> MonthYearKey(DateOf(dateValue))
    [] OTHER -> dateValue

\* the key each place gives the date cell of a row under the transform; a
\* cell that is no valid date keeps its raw value, and applyTransform leaves
\* its row out of every bucket
DateKeys(item, column, transform) ==
  LET dateValue == Get(item, column).s IN
  IF ~ValidDate(dateValue)
  THEN [applyTransform |-> Null, line |-> dateValue, series |-> dateValue,
        scatter |-> dateValue]
  ELSE [applyTransform |-> TransformDateKey(SplitColon1(Chars(transform)), dateValue),
        line |-> LineDateKey(SplitColon1(Chars(transform)), dateValue),
        series |-> SeriesLineDateKey(SplitColon1(Chars(transform)), dateValue),
        scatter |-> ScatterDateKey(SplitColon1(Chars(transform)), dateValue)]

DateGroupDomain ==
  {"date_group:year", "date_group:quarter", "date_group:month_year", "date_group:month",
   "date_group:day", "date_group:week"}

\* a row with a date arrives from the API
AddDateRow ==
  /\ call.fn = "none"
  /\ Len(rows) < MaxDateRows
  /\ \E text \in DateTexts : rows' = Append(rows, Obj(<< <<"start_date", Str(text)>> >>))
  /\ UNCHANGED <<call, out, rendered, bars>>
  /\ UNCHANGED uiVars

\* the rows are charted under a date_group transform of their date column
DateGroup ==
  /\ call.fn = "none"
  /\ \E transform \in DateGroupDomain :
       /\ StartsWith(Chars(transform), Chars("date_group:"))
       /\ call' = [fn |-> "date_group", column |-> "start_date", transform |-> transform]
       /\ out' = Returned([i \in 1..Len(rows) |-> DateKeys(rows[i], "start_date", transform)])
  /\ UNCHANGED <<rows, rendered, bars>>
  /\ UNCHANGED uiVars

NextDates == AddDateRow \/ DateGroup

SpecDates == Init /\ [][NextDates]_vars

(***************************************************************************)
(* The treemap layout (treemap-chart.tsx).  Sizes are exact fractions      *)
(* [n, d]; all heights of one layout share the denominator totalValue and  *)
(* all widths of one row share the sum of the row's values.                *)
(***************************************************************************)
MaxNodes == 7

NodeValues == {1, 2, 60}

\* the canvas of the component (800 x 500) and a wide, low one
Canvases == {[width |-> 800, height |-> 500], [width |-> 800, height |-> 10]}

RECURSIVE FracLess(_, _, _, _)
\* a/b < c/d for a, c >= 0 and b, d > 0, by whole parts and remainders
FracLess(a, b, c, d) ==
  IF a \div b # c \div d THEN a \div b < c \div d
  ELSE IF c % d = 0 THEN FALSE
  ELSE IF a % b = 0 THEN TRUE
  ELSE FracLess(d, c % d, b, a % b)

RECURSIVE ValueSum(_, _)
\* nodes.slice(0, k).reduce((sum, node) => sum + node.value, 0)
ValueSum(nodes, k) == IF k = 0 THEN 0 ELSE ValueSum(nodes, k - 1) + nodes[k].value

\* [...nodes].sort((a, b) => b.value - a.value)
SortedNodes(nodes) == StableSort(nodes, [i \in 1..Len(nodes) |-> Num(0 - nodes[i].value)])

\* Math.max(nodeWidth / testRowHeight, testRowHeight / nodeWidth) with
\* nodeWidth = (area / testRowArea) * width and testRowHeight = testRowArea / width:
\* nodeWidth / testRowHeight = value * width * totalValue / (rowValue^2 * height)
AspectRatio(value, rowValue, width, height, totalValue) ==
  IF value * width * totalValue >= rowValue * rowValue * height
  THEN [n |-> value * width * totalValue, d |-> rowValue * rowValue * height]
  ELSE [n |-> rowValue * rowValue * height, d |-> value * width * totalValue]

RECURSIVE WorstAspectRatio(_, _, _, _, _, _)
\* testNodes.forEach: worstAspectRatio = Math.max(worstAspectRatio, aspectRatio),
\* from 0, over the first k of the i nodes tried
WorstAspectRatio(remaining, i, k, width, height, totalValue) ==
  IF k = 0 THEN [n |-> 0, d |-> 1]
  ELSE LET before == WorstAspectRatio(remaining, i, k - 1, width, height, totalValue)
           this == AspectRatio(remaining[k].value, ValueSum(remaining, i),
                               width, height, totalValue)
       IN IF FracLess(before.n, before.d, this.n, this.d) THEN this ELSE before

\* a row of seven nodes at most
RowLimitSeven(remaining) == IF Len(remaining) < 7 THEN Len(remaining) ELSE 7

\* Math.min(6, remainingNodes.length)
RowLimit(remaining) == IF Len(remaining) < 6 THEN Len(remaining) ELSE 6

RECURSIVE BestRow(_, _, _, _, _, _, _)
\* for (let i = 1; i <= Math.min(6, remainingNodes.length); i++): best holds
\* the number of rowNodes (0 for none) and bestAspectRatio (none: Infinity);
\* heights are counted in units of 1 / totalValue
BestRow(remaining, i, best, width, height, totalValue, availableHeight) ==
  IF i > RowLimit(remaining) THEN best
  ELSE LET worst == WorstAspectRatio(remaining, i, i, width, height, totalValue)
           better == /\ \/ best.count = 0
                        \/ FracLess(worst.n, worst.d, best.aspect.n, best.aspect.d)
                     /\ ValueSum(remaining, i) * height <= availableHeight
       IN BestRow(remaining, i + 1,
                  IF better THEN [count |-> i, aspect |-> worst] ELSE best,
                  width, height, totalValue, availableHeight)

\* Math.max(10, n / d), kept over the same denominator
AtLeastTen(n, d) == IF n < 10 * d THEN [n |-> 10 * d, d |-> d] ELSE [n |-> n, d |-> d]

\* rowNodes.forEach: the rectangles of a row of count nodes whose values sum
\* to rowValue, at currentY with actualRowHeight (both in units of
\* 1 / totalValue); currentX is the sum of the proportional widths before
RowRectangles(remaining, count, rowValue, width, totalValue, currentY, actualRowHeight) ==
  [j \in 1..count |->
     [name |-> remaining[j].name,
      value |-> remaining[j].value,
      x |-> [n |-> ValueSum(remaining, j - 1) * width, d |-> rowValue],
      y |-> [n |-> currentY, d |-> totalValue],
      width |-> IF rowValue > 0 THEN AtLeastTen(remaining[j].value * width, rowValue)
                ELSE AtLeastTen(width, count),
      height |-> AtLeastTen(actualRowHeight, totalValue)]]

RECURSIVE LayoutRows(_, _, _, _, _, _)
\* while (remainingNodes.length > 0 && currentY < height); the square root
\* given to optimalRowHeight first is always replaced before it is read
LayoutRows(remaining, currentY, result, width, height, totalValue) ==
  IF Len(remaining) = 0 \/ ~(currentY < height * totalValue) THEN result
  ELSE LET availableHeight == height * totalValue - currentY
           best == BestRow(remaining, 1, [count |-> 0, aspect |-> [n |-> 0, d |-> 1]],
                           width, height, totalValue, availableHeight)
           count == IF best.count = 0 THEN 1 ELSE best.count
           rowValue == ValueSum(remaining, count)
           optimalRowHeight ==
             IF best.count = 0 /\ availableHeight < rowValue * height
             THEN availableHeight ELSE rowValue * height
           actualRowHeight ==
             IF availableHeight < optimalRowHeight THEN availableHeight
             ELSE optimalRowHeight
       IN LayoutRows(SubSeq(remaining, count + 1, Len(remaining)),
                     currentY + actualRowHeight,
                     result \o RowRectangles(remaining, count, rowValue, width,
                                             totalValue, currentY, actualRowHeight),
                     width, height, totalValue)

\* layoutTreemap(nodes, width, height)
LayoutTreemap(nodes, width, height) ==
  IF Len(nodes) = 0 THEN <<>>
  ELSE IF ValueSum(nodes, Len(nodes)) = 0 THEN <<>>
  ELSE LayoutRows(SortedNodes(nodes), 0, <<>>, width, height,
                  ValueSum(nodes, Len(nodes)))

\* a node of the treemap data: its name is its place in the data
AddNode ==
  /\ call.fn = "none"
  /\ Len(rows) < MaxNodes
  /\ \E v \in NodeValues : rows' = Append(rows, [name |-> Len(rows) + 1, value |-> v])
  /\ UNCHANGED <<call, out, rendered, bars>>
  /\ UNCHANGED uiVars

\* layoutNodes = layoutTreemap(treemapData, 800, 500), and the same on
\* another canvas
Layout ==
  /\ call.fn = "none"
  /\ Len(rows) > 0
  /\ \E canvas \in Canvases :
       /\ call' = [fn |-> "layoutTreemap", width |-> canvas.width,
                   height |-> canvas.height]
       /\ out' = [recs |-> LayoutTreemap(rows, canvas.width, canvas.height),
                  threw |-> FALSE]
  /\ UNCHANGED <<rows, rendered, bars>>
  /\ UNCHANGED uiVars

NextTreemap == AddNode \/ Layout

SpecTreemap == Init /\ [][NextTreemap]_vars

(***************************************************************************)
(* The page (WorkpacksGenie): the selected conversation of the page and    *)
(* the current conversation of the hook it renders.  The list of           *)
(* conversations is what useConversations returns; a conversation that     *)
(* the backend creates gets the next id and joins the list when the        *)
(* request settles.  Requests settle in any order.                         *)
(***************************************************************************)
\* the effect of the page: with conversations and nothing selected, the
\* first conversation is selected
AutoSelected(page) ==
  IF Len(page.conversations) > 0 /\ page.selectedConversationId = NoConversation
  THEN [page EXCEPT !.selectedConversationId = page.conversations[1]]
  ELSE page

\* the pending requests without the i-th
Settled(pending, i) == SubSeq(pending, 1, i - 1) \o SubSeq(pending, i + 1, Len(pending))

\* handleNewConversation up to await createConversation(...)
HandleNewConversation ==
  /\ genie.created + Cardinality({i \in 1..Len(genie.pending) :
                                    genie.pending[i].op = "create"}) < MaxConversations
  /\ genie' = [genie EXCEPT !.pending = Append(@, [op |-> "create", id |-> NoConversation,
                                                  selected |-> NoConversation])]
  /\ UNCHANGED <<rows, call, out, rendered, bars, table, calls, event, chat, storage, viewer, app>>

\* createConversation settles: setSelectedConversationId(conversation.id)
ConversationCreated ==
  /\ \E i \in 1..Len(genie.pending) :
       /\ genie.pending[i].op = "create"
       /\ genie.created < MaxConversations
       /\ genie' = AutoSelected(
            [genie EXCEPT !.pending = Settled(@, i),
                          !.created = @ + 1,
                          !.conversations = <<genie.created + 1>> \o @,
                          !.selectedConversationId = genie.created + 1])
  /\ UNCHANGED <<rows, call, out, rendered, bars, table, calls, event, chat, storage, viewer, app>>

\* handleSelectConversation(conversationId): setSelectedConversationId and
\* loadConversation
HandleSelectConversation ==
  /\ \E id \in 1..MaxConversations :
       /\ \E k \in 1..Len(genie.conversations) : genie.conversations[k] = id
       /\ genie' = AutoSelected(Rebuilt(
            [genie EXCEPT !.selectedConversationId = id,
                          !.currentConversationId = id,
                          !.apiMessages = IF id = genie.currentConversationId
                                          THEN @ ELSE <<>>], storage))
  /\ UNCHANGED <<rows, call, out, rendered, bars, table, calls, event, chat, storage, viewer, app>>

\* handleDeleteConversation(conversationId) up to await deleteConversation:
\* the handler keeps the selectedConversationId of the render it was made in
HandleDeleteConversation ==
  /\ \E id \in 1..MaxConversations :
       /\ \E k \in 1..Len(genie.conversations) : genie.conversations[k] = id
       /\ \A i \in 1..Len(genie.pending) :
            ~(genie.pending[i].op = "delete" /\ genie.pending[i].id = id)
       /\ genie' = [genie EXCEPT !.pending =
                      Append(@, [op |-> "delete", id |-> id,
                                 selected |-> genie.selectedConversationId])]
  /\ UNCHANGED <<rows, call, out, rendered, bars, table, calls, event, chat, storage, viewer, app>>

\* deleteConversation settles: if (selectedConversationId === conversationId)
\* setSelectedConversationId(null)
ConversationDeleted ==
  /\ \E i \in 1..Len(genie.pending) :
       /\ genie.pending[i].op = "delete"
       /\ genie' = AutoSelected(
            [genie EXCEPT !.pending = Settled(@, i),
                          !.conversations =
                             SelectSeq(@, LAMBDA c : c # genie.pending[i].id),
                          !.selectedConversationId =
                             IF genie.pending[i].selected = genie.pending[i].id
                             THEN NoConversation ELSE @])
  /\ UNCHANGED <<rows, call, out, rendered, bars, table, calls, event, chat, storage, viewer, app>>

\* sendMessage(message): POST /api/genie with conv_id: currentConversationId;
\* the input is disabled while a message is being sent
SendMessage ==
  /\ \A i \in 1..Len(genie.pending) : genie.pending[i].op # "send"
  /\ genie.currentConversationId # NoConversation \/ genie.created < MaxConversations
  /\ genie' = [genie EXCEPT !.pending =
                 Append(@, [op |-> "send", id |-> genie.currentConversationId,
                            selected |-> genie.selectedConversationId])]
  /\ UNCHANGED <<rows, call, out, rendered, bars, table, calls, event, chat, storage, viewer, app>>

\* onSuccess(data): data.conv_id is the conversation of the request, or a
\* conversation the backend made for a request without one;
\* if (data.conv_id && data.conv_id !== currentConversationId)
\* setCurrentConversationId(data.conv_id)
MessageAnswered ==
  /\ \E i \in 1..Len(genie.pending) :
       /\ genie.pending[i].op = "send"
       /\ genie.pending[i].id # NoConversation \/ genie.created < MaxConversations
       /\ LET made == genie.pending[i].id = NoConversation
              conv_id == IF made THEN genie.created + 1 ELSE genie.pending[i].id
          IN genie' = AutoSelected(Rebuilt(
               [genie EXCEPT !.pending = Settled(@, i),
                             !.created = IF made THEN @ + 1 ELSE @,
                             !.conversations = IF made THEN <<conv_id>> \o @ ELSE @,
                             !.currentConversationId = conv_id,
                             !.apiMessages = IF conv_id = genie.currentConversationId
                                             THEN @ ELSE <<>>], storage))
  /\ UNCHANGED <<rows, call, out, rendered, bars, table, calls, event, chat, storage, viewer, app>>

NextGenie ==
  \/ HandleNewConversation \/ ConversationCreated
  \/ HandleSelectConversation
  \/ HandleDeleteConversation \/ ConversationDeleted
  \/ SendMessage \/ MessageAnswered

SpecGenie == Init /\ [][NextGenie]_vars

(***************************************************************************)
(* The viewer of saved charts (saved-charts-viewer.tsx): it reads the      *)
(* savedCharts item once, when it mounts, and deletes from the list it     *)
(* holds.  Other components save charts to the item meanwhile; the id of a *)
(* chart is the time of its save (Date.now()), a new one for each save.    *)
(***************************************************************************)
MaxViewerCharts == 3

RECURSIVE LastId(_)
\* the largest id of a list of charts, 0 for none
LastId(charts) ==
  IF Len(charts) = 0 THEN 0
  ELSE IF charts[Len(charts)].id > LastId(SubSeq(charts, 1, Len(charts) - 1))
       THEN charts[Len(charts)].id
       ELSE LastId(SubSeq(charts, 1, Len(charts) - 1))

\* handleSaveChart of a chat message: the chart is appended to the item
SaveElsewhere ==
  /\ Len(storage) < MaxViewerCharts
  /\ \E c \in 1..2, t \in Times :
       storage' = Append(storage, [id |-> LastId(storage \o viewer.savedCharts) + 1,
                                   conversationId |-> c, savedAt |-> t])
  /\ UNCHANGED <<rows, call, out, rendered, bars, table, calls, event, chat, genie, viewer, app>>

\* loadSavedCharts in the effect of the first render: the charts of the item,
\* newest first
LoadSavedCharts ==
  /\ ~viewer.loaded
  /\ viewer' = [loaded |-> TRUE,
                savedCharts |->
                  StableSort(storage, [i \in 1..Len(storage) |->
                                         Num(0 - storage[i].savedAt)])]
  /\ UNCHANGED <<rows, call, out, rendered, bars, table, calls, event, chat, genie, storage, app>>

\* deleteChart(chartId): updatedCharts = savedCharts.filter(chart =>
\* chart.id !== chartId), written to the item and to the state
DeleteChart ==
  /\ \E k \in 1..Len(viewer.savedCharts) :
       LET updatedCharts ==
             SelectSeq(viewer.savedCharts,
                       LAMBDA chart : chart.id # viewer.savedCharts[k].id)
       IN /\ storage' = updatedCharts
          /\ viewer' = [viewer EXCEPT !.savedCharts = updatedCharts]
  /\ UNCHANGED <<rows, call, out, rendered, bars, table, calls, event, chat, genie, app>>

NextViewer == SaveElsewhere \/ LoadSavedCharts \/ DeleteChart

SpecViewer == Init /\ [][NextViewer]_vars

(***************************************************************************)
(* The single-file chat application (replit.md, WorkpacksGenie): each      *)
(* message gets an id from the clock, Date.now() plus a small offset.      *)
(* A message is [id, kind, n]: the kind is greeting, user, typing (the     *)
(* "Thinking..." placeholder), content, table or error, and n numbers the  *)
(* request it belongs to.  Requests are answered in any order.             *)
(***************************************************************************)
MaxSends == 2

MaxClock == 4

\* the clock advances by a millisecond
Tick ==
  /\ app.now < MaxClock
  /\ app' = [app EXCEPT !.now = @ + 1]
  /\ UNCHANGED <<rows, call, out, rendered, bars, table, calls, event, chat, genie, storage, viewer>>

\* sendMessage(e) with a text in the input, up to await fetch(...):
\* setMessages(prev => [...prev, userMsg, typingMsg])
SubmitMessage ==
  /\ app.sent < MaxSends
  /\ app' = [app EXCEPT
       !.sent = @ + 1,
       !.messages = @ \o <<[id |-> app.now, kind |-> "user", n |-> app.sent + 1],
                           [id |-> app.now + 1, kind |-> "typing", n |-> app.sent + 1]>>,
       !.inFlight = @ \cup {[n |-> app.sent + 1, typingId |-> app.now + 1,
                             convId |-> app.convId]}]
  /\ UNCHANGED <<rows, call, out, rendered, bars, table, calls, event, chat, genie, storage, viewer>>

\* prev.filter((m) => m.id !== typingMsg.id)
WithoutTyping(messages, typingId) == SelectSeq(messages, LAMBDA m : m.id # typingId)

\* the response of a request arrives: setConvId for a new payload.conv_id,
\* then the content message and, for a payload with rows, the table message
\* take the place of the placeholder
ReceivePayload ==
  /\ \E request \in app.inFlight, conv_id \in {NoConversation, 1}, hasTable \in BOOLEAN :
       app' = [app EXCEPT
         !.inFlight = @ \ {request},
         !.convId = IF conv_id # NoConversation /\ conv_id # request.convId
                    THEN conv_id ELSE @,
         !.messages = WithoutTyping(@, request.typingId)
                      \o <<[id |-> app.now + 2, kind |-> "content", n |-> request.n]>>
                      \o IF hasTable
                         THEN <<[id |-> app.now + 3, kind |-> "table", n |-> request.n]>>
                         ELSE <<>>]
  /\ UNCHANGED <<rows, call, out, rendered, bars, table, calls, event, chat, genie, storage, viewer>>

\* fetch or res.json() rejects: the error message takes the place of the
\* placeholder
ReceiveError ==
  /\ \E request \in app.inFlight :
       app' = [app EXCEPT
         !.inFlight = @ \ {request},
         !.messages = WithoutTyping(@, request.typingId)
                      \o <<[id |-> app.now + 4, kind |-> "error", n |-> request.n]>>]
  /\ UNCHANGED <<rows, call, out, rendered, bars, table, calls, event, chat, genie, storage, viewer>>

NextApp == Tick \/ SubmitMessage \/ ReceivePayload \/ ReceiveError

SpecApp == Init /\ [][NextApp]_vars

(***************************************************************************)
(* The table component: sorting by a header and the filters.  call names   *)
(* the handler that ran last and, for handleSort, the header clicked.      *)
(***************************************************************************)
\* the headers of the table: Object.keys(data[0])
Headers == Columns \cup {"wp_id"}

SearchTerms == {"", "pipe"}

FilterValues == {"all", "Done"}

\* the handler of the third click gives up the direction and keeps the field
HandleSortKeepsField(sortField, sortDirection, field) ==
  IF sortField = field
  THEN IF sortDirection = "asc" THEN [sortField |-> sortField, sortDirection |-> "desc"]
       ELSE IF sortDirection = "desc" THEN [sortField |-> sortField, sortDirection |-> Null]
       ELSE [sortField |-> sortField, sortDirection |-> "asc"]
  ELSE [sortField |-> field, sortDirection |-> "asc"]

\* handleSort(field): the sortField and sortDirection it sets
HandleSort(sortField, sortDirection, field) ==
  IF sortField = field
  THEN IF sortDirection = "asc" THEN [sortField |-> sortField, sortDirection |-> "desc"]
       ELSE IF sortDirection = "desc" THEN [sortField |-> Null, sortDirection |-> Null]
       ELSE [sortField |-> sortField, sortDirection |-> "asc"]
  ELSE [sortField |-> field, sortDirection |-> "asc"]

\* onClick={() => handleSort(column)} of a header
ClickHeader ==
  /\ \E column \in Headers :
       /\ call' = [fn |-> "handleSort", column |-> column, transform |-> Null]
       /\ table' = [table EXCEPT
            !.sortField = HandleSort(table.sortField, table.sortDirection, column).sortField,
            !.sortDirection =
               HandleSort(table.sortField, table.sortDirection, column).sortDirection]
  /\ UNCHANGED <<rows, out, rendered, bars, calls, event, chat, genie, storage, viewer, app>>

\* clearFilters
ClearFilters ==
  /\ call' = [fn |-> "clearFilters", column |-> Null, transform |-> Null]
  /\ table' = [table EXCEPT !.searchTerm = "", !.filterField = "all",
                            !.filterValue = "all", !.sortField = Null,
                            !.sortDirection = Null]
  /\ UNCHANGED <<rows, out, rendered, bars, calls, event, chat, genie, storage, viewer, app>>

\* onChange of the search input: setSearchTerm(e.target.value)
SetSearchTerm ==
  /\ \E term \in SearchTerms :
       /\ call' = [fn |-> "setSearchTerm", column |-> Null, transform |-> Null]
       /\ table' = [table EXCEPT !.searchTerm = term]
  /\ UNCHANGED <<rows, out, rendered, bars, calls, event, chat, genie, storage, viewer, app>>

\* onValueChange={setFilterField}
SetFilterField ==
  /\ \E field \in Headers \cup {"all"} :
       /\ call' = [fn |-> "setFilterField", column |-> Null, transform |-> Null]
       /\ table' = [table EXCEPT !.filterField = field]
  /\ UNCHANGED <<rows, out, rendered, bars, calls, event, chat, genie, storage, viewer, app>>

\* onValueChange={setFilterValue}
SetFilterValue ==
  /\ \E value \in FilterValues :
       /\ call' = [fn |-> "setFilterValue", column |-> Null, transform |-> Null]
       /\ table' = [table EXCEPT !.filterValue = value]
  /\ UNCHANGED <<rows, out, rendered, bars, calls, event, chat, genie, storage, viewer, app>>

NextSort == ClickHeader \/ ClearFilters \/ SetSearchTerm \/ SetFilterField \/ SetFilterValue

SpecSort == Init /\ [][NextSort]_vars

(***************************************************************************)
(* calculateProjectMetrics (chart-utils.ts): the rows are work packages    *)
(* with a status under Status or status and a progress.                    *)
(***************************************************************************)
MaxPackages == 2

\* text, a missing cell, and a number where text is expected
PackageStatuses ==
  {Str("Completed"), Str("Delayed"), Str("In Progress"), Str("Completed (delayed)"),
   Undef, Num(5)}

PackageProgress == {Undef, Num(50), Str("TBD")}

\* a character of s.toLowerCase(), for the capitals of the model's texts
LowerChar(ch) ==
  CASE ch = "C" -> "c" [] ch = "D" -> "d" [] ch = "I" -> "i" [] ch = "P" -> "p"
    [] ch = "T" -> "t" [] ch = "B" -> "b" [] OTHER -> ch

ToLowerCase(c) == [i \in 1..Len(c) |-> LowerChar(c[i])]

\* item.Status || item.status || ''
StatusOf(item) ==
  IF Truthy(Get(item, "Status")) THEN Get(item, "Status")
  ELSE IF Truthy(Get(item, "status")) THEN Get(item, "status")
  ELSE Str("")

\* (item.Status || item.status || '').toLowerCase().includes(word)
StatusIncludes(item, word) ==
  Includes(ToLowerCase(Chars(StatusOf(item).s)), Chars(word))

\* data.filter(item => (...).includes(word)).length
CountStatus(data, word) ==
  Cardinality({i \in 1..Len(data) : StatusIncludes(data[i], word)})

\* parseInt(item.Progress || item.progress || '0')
ProgressOf(item) ==
  ParseNumber(CharsOfValue(
    IF Truthy(Get(item, "Progress")) THEN Get(item, "Progress")
    ELSE IF Truthy(Get(item, "progress")) THEN Get(item, "progress")
    ELSE Str("0")))

\* Math.round(progressSum / totalPackages), NaN for a sum that is NaN
OverallProgress(data) ==
  LET progressSum == NSum([i \in 1..Len(data) |-> ProgressOf(data[i])])
  IN IF progressSum.t = "num" THEN Num(RoundDiv(progressSum.n, Len(data))) ELSE NaN

\* calculateProjectMetrics(data); toLowerCase of a status that is not text
\* is a TypeError
CalculateProjectMetrics(data) ==
  IF Len(data) = 0
  THEN Returned(<<[totalPackages |-> 0, completedPackages |-> 0,
                   overallProgress |-> Num(0), delayedPackages |-> 0,
                   onTrackPackages |-> 0]>>)
  ELSE IF \E i \in 1..Len(data) : StatusOf(data[i]).t # "str" THEN Threw
  ELSE Returned(<<[totalPackages |-> Len(data),
                   completedPackages |-> CountStatus(data, "completed"),
                   overallProgress |-> OverallProgress(data),
                   delayedPackages |-> CountStatus(data, "delayed"),
                   onTrackPackages |-> Len(data) - CountStatus(data, "delayed")
                                         - CountStatus(data, "completed")]>>)

\* a work package arrives, its status under either key
AddPackage ==
  /\ call.fn = "none"
  /\ Len(rows) < MaxPackages
  /\ \E key \in {"Status", "status"}, status \in PackageStatuses,
        progress \in PackageProgress :
       rows' = Append(rows, Obj(<<<<"progress", progress>>, <<key, status>>>>))
  /\ UNCHANGED <<call, out, rendered, bars>>
  /\ UNCHANGED uiVars

\* calculateProjectMetrics(rows), for the empty array too
ProjectMetrics ==
  /\ call.fn = "none"
  /\ call' = [fn |-> "calculateProjectMetrics", column |-> Null, transform |-> Null]
  /\ out' = CalculateProjectMetrics(rows)
  /\ UNCHANGED <<rows, rendered, bars>>
  /\ UNCHANGED uiVars

NextMetrics == AddPackage \/ ProjectMetrics

SpecMetrics == Init /\ [][NextMetrics]_vars

(***************************************************************************)
(* Properties of the transform layer.                                      *)
(***************************************************************************)
\* what the properties read off a call and its result
CalledTransform(prefix) ==
  call.fn = "applyTransform" /\ call.transform # Null
  /\ StartsWith(Chars(call.transform), Chars(prefix))

RECURSIVE SumField(_, _)
SumField(recs, field) ==
  IF recs = <<>> THEN 0 ELSE recs[1][field].n + SumField(Tail(recs), field)

\* the group a row belongs to: its cell text, "Unknown" for a missing or falsy cell
GroupOf(i) ==
  LET v == rows[i][call.column] IN IF Truthy(v) THEN StringOf(v) ELSE "Unknown"

Groups == {GroupOf(i) : i \in 1..Len(rows)}

GroupSize(g) == Cardinality({i \in 1..Len(rows) : GroupOf(i) = g})

\* the integer written after the colon of the transform code
CodeParam == ParseNumber(SplitColon1(Chars(call.transform)))

NumericColumn == \A i \in 1..Len(rows) : rows[i][call.column].t = "num"

TopKShape(k) ==
  /\ ~out.threw
  /\ Len(out.recs) = (IF k < Cardinality(Groups) THEN k ELSE Cardinality(Groups))
  /\ \A i \in 1..Len(out.recs) :
       /\ out.recs[i][call.column].s \in Groups
       /\ out.recs[i]["count"].n = GroupSize(out.recs[i][call.column].s)
  /\ \A i, j \in 1..Len(out.recs) :
       i # j => out.recs[i][call.column].s # out.recs[j][call.column].s
  /\ \A i \in 1..(Len(out.recs) - 1) : out.recs[i]["count"].n >= out.recs[i + 1]["count"].n
  /\ \A g \in Groups \ {out.recs[i][call.column].s : i \in 1..Len(out.recs)} :
       \A i \in 1..Len(out.recs) : GroupSize(g) <= out.recs[i]["count"].n

CodeThreshold == ParseFloat(SplitColon1(Chars(call.transform)))

\* the groups whose count is at least t * total rows
LargeGroups(t) == {g \in Groups : GroupSize(g) * t.d >= Len(rows) * t.n}

RECURSIVE SumSizes(_)
SumSizes(gs) ==
  IF gs = {} THEN 0
  ELSE LET g == CHOOSE x \in gs : TRUE IN GroupSize(g) + SumSizes(gs \ {g})

\* the records of the result whose key is name
RecordsKeyed(name) == {i \in 1..Len(out.recs) : out.recs[i][call.column] = Str(name)}

\* what C11 says of an other_group call whose threshold is t
OtherGroupShape(t) ==
  /\ ~out.threw
  /\ \A g \in LargeGroups(t) :
       \E i \in RecordsKeyed(g) : out.recs[i]["count"] = Num(GroupSize(g))
  /\ SumSizes(Groups \ LargeGroups(t)) > 0 =>
       \E i \in RecordsKeyed("Other") :
         out.recs[i]["count"] = Num(SumSizes(Groups \ LargeGroups(t)))
  /\ (SumSizes(Groups \ LargeGroups(t)) = 0 /\ "Other" \notin Groups) =>
       RecordsKeyed("Other") = {}
  /\ \A i \in 1..Len(out.recs) :
       Cardinality(RecordsKeyed(out.recs[i][call.column].s)) = 1
  /\ SumField(out.recs, "count") = Len(rows)

\* C11: for every data set and threshold t given as `other_group:t`, each
\* group whose count is at least t * total rows is returned with its own
\* count, the remaining groups are merged into a single record keyed
\* "Other" whose count is their sum (absent when nothing is merged), no key
\* has more than one record, and the counts sum to the number of rows.
C11_OtherGroupMerges ==
  (CalledTransform("other_group:") /\ CodeThreshold.t = "num") =>
    OtherGroupShape(CodeThreshold)

\* C3: for a non-empty data set of numeric values and `bin:N`, N >= 1, every
\* value is put in one bin of index 0..N-1 (no value meets an undefined
\* bin), exactly N bins are returned and their counts sum to the number of
\* rows.
C3_BinsCoverRows ==
  (/\ CalledTransform("bin:") /\ CodeParam.t = "num" /\ CodeParam.n >= 1
   /\ rows # <<>> /\ NumericColumn) =>
    /\ ~out.threw
    /\ Len(out.recs) = CodeParam.n
    /\ SumField(out.recs, "count") = Len(rows)

\* C9: for a non-empty numeric data set, `bin:quartile` returns exactly the 4
\* quartile buckets, whose counts sum to the number of rows.
C9_QuartileBuckets ==
  (call.fn = "applyTransform" /\ call.transform = "bin:quartile"
   /\ rows # <<>> /\ NumericColumn) =>
    /\ ~out.threw
    /\ Len(out.recs) = 4
    /\ SumField(out.recs, "count") = Len(rows)

(***************************************************************************)
(* Properties of the chart processors.                                     *)
(***************************************************************************)
\* what the properties read off a rendering and its rows
Charted(types) == call.fn = "DynamicChart" /\ call.spec.type \in types

XGroupOf(i) ==
  LET v == Get(rows[i], call.spec.x) IN IF Truthy(v) THEN StringOf(v) ELSE "Unknown"

XGroups == {XGroupOf(i) : i \in 1..Len(rows)}

XGroupRows(g) == {i \in 1..Len(rows) : XGroupOf(i) = g}

\* the y cell of row i as a number: the text without the characters outside
\* [0-9.-], 0 when that is no number
YNumber(i) == OrZero(ParseFloatStripped(Get(rows[i], call.spec.y)))

\* the y cell of row i as parseFloat reads it, 0 when that is no number
YParsed(i) == OrZero(ParseFloatOf(Get(rows[i], call.spec.y)))

GroupSum(g) ==
  NSum([j \in 1..Len(rows) |-> IF XGroupOf(j) = g THEN YNumber(j) ELSE Num(0)])

DistinctNames(field) ==
  \A i, j \in 1..Len(out.recs) : i # j => out.recs[i][field] # out.recs[j][field]

\* v is the element at 0-based position k of the group's values sorted ascending
IsOrderStatistic(v, k, g) ==
  /\ \E i \in XGroupRows(g) : YNumber(i) = v
  /\ Cardinality({i \in XGroupRows(g) : NLess(YNumber(i), v)}) <= k
  /\ Cardinality({i \in XGroupRows(g) : NLeq(YNumber(i), v)}) > k

NamesText(column) ==
  column # Null
  /\ \E sub \in {"description", "name", "label"} : Includes(Chars(column), Chars(sub))

NoDataPlaceholders ==
  {"No visualization data available", "No data available for visualization"}

C5_WaterfallRunningTotal ==
  (Charted({"waterfall"}) /\ Present(call.spec.x) /\ Present(call.spec.y)) =>
    /\ ~out.threw
    /\ Len(out.recs) = Len(rows)
    /\ \A i \in 1..Len(out.recs) :
         LET r == out.recs[i] IN
           /\ r[call.spec.y] = YParsed(i)
           /\ Truthy(Get(rows[i], call.spec.x)) => r[call.spec.x] = rows[i][call.spec.x]
           /\ r["start"] = (IF i = 1 THEN Num(0) ELSE out.recs[i - 1]["end"])
           /\ r["end"] = NAdd(r["start"], r[call.spec.y])
           /\ r["cumulative"] = r["end"]
    /\ out.recs # <<>> =>
         out.recs[Len(out.recs)]["cumulative"] = NSum([i \in 1..Len(rows) |-> YParsed(i)])

\* three steps of 1, 4 and a non-numeric cell: the running total ends at 5
C5_Witness ==
  /\ Charted({"waterfall"}) /\ Present(call.spec.x) /\ Present(call.spec.y)
  /\ Len(out.recs) = 3
  /\ out.recs[2]["start"] = Num(1) /\ out.recs[2]["end"] = Num(5)
  /\ out.recs[3]["cumulative"] = Num(5)

\* C6: every record of processBoxChart describes a group of n >= 1 values
\* by nearest rank: with the values sorted ascending, min = sorted[0],
\* q1 = sorted[floor(0.25 n)], median = sorted[floor(0.5 n)],
\* q3 = sorted[floor(0.75 n)], max = sorted[n - 1], hence
\* min <= q1 <= median <= q3 <= max; for the values 1..8 the median is 5.
C6_BoxNearestRank ==
  (Charted({"box", "violin"}) /\ Present(call.spec.x) /\ Present(call.spec.y)) =>
    /\ ~out.threw
    /\ Len(out.recs) = Cardinality(XGroups)
    /\ DistinctNames(call.spec.x)
    /\ \A i \in 1..Len(out.recs) :
         LET r == out.recs[i]
             g == r[call.spec.x].s
             n == Cardinality(XGroupRows(g))
         IN /\ g \in XGroups
            /\ r["count"] = Num(n)
            /\ IsOrderStatistic(r["min"], 0, g)
            /\ IsOrderStatistic(r["q1"], n \div 4, g)
            /\ IsOrderStatistic(r["median"], n \div 2, g)
            /\ IsOrderStatistic(r["q3"], (3 * n) \div 4, g)
            /\ IsOrderStatistic(r["max"], n - 1, g)
            /\ NLeq(r["min"], r["q1"]) /\ NLeq(r["q1"], r["median"])
            /\ NLeq(r["median"], r["q3"]) /\ NLeq(r["q3"], r["max"])
    /\ (\A v \in 1..8 : \E i \in 1..Len(rows) : YNumber(i) = Num(v)) /\ Len(rows) = 8
         /\ Cardinality(XGroups) = 1
       => out.recs[1]["median"] = Num(5)

\* one group holding the values 1..8: quartiles 3, 5 and 7
C6_Witness ==
  /\ Charted({"box", "violin"}) /\ Present(call.spec.x) /\ Present(call.spec.y)
  /\ Len(rows) = 8 /\ \A v \in 1..8 : \E i \in 1..Len(rows) : YNumber(i) = Num(v)
  /\ Len(out.recs) = 1
  /\ out.recs[1]["q1"] = Num(3) /\ out.recs[1]["median"] = Num(5)
  /\ out.recs[1]["q3"] = Num(7)

\* C7: a scatter or bubble spec whose x or y field name contains
\* "description", "name" or "label" gets an empty array and no exception,
\* whatever the rows and the other spec fields are.
C7_ScatterRejectsTextColumns ==
  (Charted({"scatter", "bubble"}) /\ (NamesText(call.spec.x) \/ NamesText(call.spec.y))) =>
    out = Returned(<<>>)

\* a bubble spec with a series column, a numeric x and the y column "label",
\* over rows
C7_Witness ==
  /\ Charted({"bubble"}) /\ call.spec.series # Null
  /\ ~NamesText(call.spec.x) /\ NamesText(call.spec.y)
  /\ Len(rows) >= 2
  /\ out = Returned(<<>>)

\* C8: a chart type that needs both axes (line, area, scatter, bubble, box,
\* violin, heatmap, waterfall, funnel) with x or y null gets an empty array
\* and no exception, and the no-data placeholder is shown instead of a
\* chart; the same holds for every chart type when both x and y are null.
C8_MissingAxesGiveNoData ==
  (/\ call.fn = "DynamicChart"
   /\ \/ /\ call.spec.type \in {"line", "area", "scatter", "bubble", "box", "violin",
                                "heatmap", "waterfall", "funnel"}
         /\ (call.spec.x = Null \/ call.spec.y = Null)
      \/ (call.spec.x = Null /\ call.spec.y = Null)) =>
    /\ out = Returned(<<>>)
    /\ rendered \in NoDataPlaceholders

\* a line chart with x set and y null over rows: the renderer's placeholder
C8_Witness ==
  /\ Charted({"line"}) /\ call.spec.x # Null /\ call.spec.y = Null
  /\ Len(rows) >= 1
  /\ out = Returned(<<>>)
  /\ rendered = "No data available for visualization"

\* C10: for a bar or horizontal_bar spec with x and y set and transform_y =
\* "mean", processBarChart returns exactly one record per distinct x value,
\* whose y field is the sum of the group's coerced y values divided by the
\* group's row count.
C10_BarMeanPerGroup ==
  (/\ Charted({"bar", "horizontal_bar"})
   /\ Present(call.spec.x) /\ Present(call.spec.y) /\ call.spec.transform_y = "mean") =>
    /\ ~out.threw
    /\ Len(out.recs) = Cardinality(XGroups)
    /\ \A i, j \in 1..Len(out.recs) :
         i # j => Get(out.recs[i], call.spec.x) # Get(out.recs[j], call.spec.x)
    /\ \A i \in 1..Len(out.recs) :
         LET name == Get(out.recs[i], call.spec.x) IN
           /\ name.t = "str" /\ name.s \in XGroups
           /\ Get(out.recs[i], call.spec.y) =
                NDivInt(GroupSum(name.s), Cardinality(XGroupRows(name.s)))

\* C16: for a horizontal_bar spec with x and y set and transform_y = "sum",
\* the value the renderer plots for each category (the field it uses as the
\* bar's dataKey, after its own data preparation) equals the sum of the y
\* values of the input rows in that category, as processBarChart computed it.
C16_HorizontalBarPlotsSums ==
  (/\ Charted({"horizontal_bar"}) /\ Len(rows) > 0
   /\ Present(call.spec.x) /\ Present(call.spec.y) /\ call.spec.transform_y = "sum") =>
    /\ ~out.threw
    /\ \A i \in 1..Len(out.recs) :
         Get(out.recs[i], call.spec.y) = GroupSum(Get(out.recs[i], call.spec.x).s)
    /\ \A i \in 1..Len(bars.data) :
         Get(bars.data[i], bars.dataKey) = GroupSum(Get(bars.data[i], call.spec.x).s)

\* the sum of the count fields of the records
RECURSIVE CountsTotal(_)
CountsTotal(recs) ==
  IF recs = <<>> THEN Num(0)
  ELSE NAdd(Get(Head(recs), "count"), CountsTotal(Tail(recs)))

\* the histogram bins the numbers of the x column, which are not all equal
BinsNumericColumn ==
  /\ Charted({"histogram"}) /\ Len(rows) > 0 /\ Present(call.spec.x)
  /\ Present(call.spec.transform_x)
  /\ StartsWith(Chars(call.spec.transform_x), Chars("bin:"))
  /\ \A i \in 1..Len(rows) : Get(rows[i], call.spec.x).t = "num"
  /\ \E i, j \in 1..Len(rows) : Get(rows[i], call.spec.x) # Get(rows[j], call.spec.x)

\* C18: for a histogram spec that bins a numeric column, every record that
\* processHistogram returns has a count and a value field, the count of each
\* record (the field the renderer plots) is the number of input values that
\* fall in its bin, 0 for a bin that received no value, and so the counts add
\* up to the number of input rows.
C18_HistogramCounts ==
  BinsNumericColumn =>
    /\ ~out.threw
    /\ bars.dataKey = "count"
    /\ \A b \in 1..Len(out.recs) :
         /\ {"count", "value"} \subseteq DOMAIN out.recs[b]
         /\ Get(out.recs[b], "count") =
              Num(BinSize(BinIndexes(BinValues(rows, call.spec.x), Len(out.recs)), b - 1))
    /\ CountsTotal(out.recs) = Num(Len(rows))

\* C19: for every bar spec (any combination of x, y, transform_x,
\* transform_y, legacy transform and title) and every non-empty data set, the
\* dataKey the renderer selects for the bars is a field of every record that
\* processBarChart returned for the spec.
C19_BarDataKeyPresent ==
  (Charted({"bar"}) /\ Len(rows) > 0 /\ ~out.threw /\ Len(out.recs) > 0) =>
    /\ bars.dataKey = BarDataKey(call.spec)
    /\ \A i \in 1..Len(out.recs) : bars.dataKey \in DOMAIN out.recs[i]

\* the series value of row i: its cell text, "Unknown" for a missing cell
SeriesOf(i) ==
  LET v == Get(rows[i], call.spec.series) IN IF Truthy(v) THEN StringOf(v) ELSE "Unknown"

\* the rows with x value g and series value sv
CellRows(g, sv) == {i \in XGroupRows(g) : SeriesOf(i) = sv}

\* the chart counts rows: transform_y is "count", or there is no y column or
\* no row with a y value
CountMode ==
  \/ call.spec.transform_y = "count" \/ ~Present(call.spec.y)
  \/ \A i \in 1..Len(rows) : Get(rows[i], call.spec.y) \in {Undef, Str("")}

RECURSIVE SumOver(_, _)
SumOver(record, names) ==
  IF names = {} THEN Num(0)
  ELSE LET name == CHOOSE x \in names : TRUE
       IN NAdd(record[name], SumOver(record, names \ {name}))

\* C17: for a stacked_bar or grouped_bar spec with x and series set,
\* processStackedBarChart returns exactly one record per distinct x value;
\* every record has one field for every series value that occurs anywhere
\* in the data, equal to the number of rows (count mode) or the sum of y
\* (sum mode) over the rows with that x and that series value, and 0 when
\* there is no such row; in count mode the series fields sum to `count`.
C17_StackedSeriesFields ==
  (/\ Charted({"stacked_bar", "grouped_bar"}) /\ Len(rows) > 0
   /\ Present(call.spec.x) /\ Present(call.spec.series)) =>
    /\ ~out.threw
    /\ Len(out.recs) = Cardinality(XGroups)
    /\ {Get(out.recs[i], call.spec.x).s : i \in 1..Len(out.recs)} = XGroups
    /\ \A i \in 1..Len(out.recs) :
         LET g == Get(out.recs[i], call.spec.x).s
             all == {SeriesOf(j) : j \in 1..Len(rows)}
         IN /\ \A sv \in all :
                 /\ sv \in DOMAIN out.recs[i]
                 /\ out.recs[i][sv] =
                      (IF CountMode THEN Num(Cardinality(CellRows(g, sv)))
                       ELSE NSum([j \in 1..Len(rows) |->
                                    IF j \in CellRows(g, sv) THEN YNumber(j) ELSE Num(0)]))
            /\ CountMode => SumOver(out.recs[i], all) = out.recs[i]["count"]

(***************************************************************************)
(* Properties of the table component.                                      *)
(***************************************************************************)
\* the step is a run of generateFromJson on the text of the textarea
JsonStep == event'.name = "generateFromJson" /\ table.showJsonDialog

\* the run accepted its input: it raised the success toast
JsonAccepted == event'.toasts[1].variant # "destructive"

\* an item of the parsed array that has a (non-empty) type
HasType(item) ==
  item.t = "object" /\ "type" \in DOMAIN item.props
  /\ item.props["type"].t = "str" /\ item.props["type"].s # ""

\* the text is not valid JSON, is no array, or has no item with a type
JsonUnacceptable(text) ==
  \/ ~JsonParse(text).ok
  \/ JsonParse(text).value.t # "array"
  \/ \A i \in 1..Len(JsonParse(text).value.items) : ~HasType(JsonParse(text).value.items[i])

\* C12: whenever generateFromJson accepts a custom JSON input, the input
\* parsed to an array and visualizationSpecs afterwards holds exactly the
\* array's items that have a type, in their original order, so every stored
\* spec has a type; an input that is not an array, or an array with no item
\* that has a type, is never accepted.
C12_JsonAcceptedSpecs ==
  [][JsonStep =>
       /\ JsonAccepted =>
            /\ JsonParse(table.chartJson).ok
            /\ JsonParse(table.chartJson).value.t = "array"
            /\ table'.visualizationSpecs =
                 SelectSeq(JsonParse(table.chartJson).value.items, HasType)
            /\ \A i \in 1..Len(table'.visualizationSpecs) :
                 HasType(table'.visualizationSpecs[i])
       /\ JsonUnacceptable(table.chartJson) => ~JsonAccepted]_vars

\* an accepted input of three items, one of them without a type
C12_Witness ==
  /\ event.name = "generateFromJson" /\ event.toasts[1].title = "Success"
  /\ Len(table.visualizationSpecs) = 2
  /\ table.visualizationSpecs[2] = ChartSpec("pie", "status", Null)

\* C13: when generateFromJson rejects its input (text that is not valid
\* JSON, a non-array value, or no item with a type), it raises exactly one
\* error toast carrying the error message and leaves visualizationSpecs,
\* showVisualizations, showJsonDialog and the chartJson text unchanged.
C13_JsonRejectedKeepsState ==
  [][(JsonStep /\ JsonUnacceptable(table.chartJson)) =>
       /\ Len(event'.toasts) = 1
       /\ event'.toasts[1].title = "Error" /\ event'.toasts[1].variant = "destructive"
       /\ \/ ~JsonParse(table.chartJson).ok
               /\ event'.toasts[1].description =
                    "Invalid JSON format: " \o JsonParse(table.chartJson).message
          \/ JsonParse(table.chartJson).ok
               /\ event'.toasts[1].description \in
                    {"Invalid JSON format: Chart JSON must be an array of chart specifications",
                     "Invalid JSON format: No valid chart specifications found",
                     "Invalid JSON format: " \o TypeError}
       /\ table'.visualizationSpecs = table.visualizationSpecs
       /\ table'.showVisualizations = table.showVisualizations
       /\ table'.showJsonDialog = table.showJsonDialog
       /\ table'.chartJson = table.chartJson]_vars

\* a rejected input while charts of an earlier input are shown
C13_Witness ==
  /\ event.name = "generateFromJson" /\ event.toasts[1].variant = "destructive"
  /\ table.showVisualizations /\ Len(table.visualizationSpecs) = 2
  /\ table.showJsonDialog /\ table.chartJson = "{\"type\":\"bar\"}"

\* the call ends with this step, and it ends because the request failed,
\* the status was not OK, the body or the string it held was not JSON, or
\* the response had no `visualizations` array
CallFailed ==
  /\ Len(calls) = 1 /\ calls' = <<>>
  /\ \/ calls[1].phase \in {"fetch", "text"}
     \/ ~JsonParse(calls[1].body).ok
     \/ /\ JsonParse(calls[1].body).value.t = "str"
        /\ ~JsonParse(JsonParse(calls[1].body).value.s).ok
     \/ /\ JsonParse(calls[1].body).value.t # "str"
        /\ \/ JsonParse(calls[1].body).value.t # "object"
           \/ "visualizations" \notin DOMAIN JsonParse(calls[1].body).value.props
           \/ JsonParse(calls[1].body).value.props["visualizations"].t # "array"

\* C14: when a call to the external visualization service fails (network
\* error, non-OK status, a string body that is not JSON, or a response
\* without a `visualizations` array), generateVisualization sends no further
\* request, shows an error toast, leaves visualizationSpecs and
\* showVisualizations as they were and sets isGeneratingViz back to false.
C14_FailedCallKeepsCharts ==
  [][CallFailed =>
       /\ calls' = <<>>
       /\ Len(event'.toasts) = 1
       /\ event'.toasts[1].title = "Error" /\ event'.toasts[1].variant = "destructive"
       /\ table'.visualizationSpecs = table.visualizationSpecs
       /\ table'.showVisualizations = table.showVisualizations
       /\ ~table'.isGeneratingViz]_vars

\* a failed call while charts of an earlier generation are shown
C14_Witness ==
  /\ event.name = "generateVisualization"
  /\ event.toasts # <<>> /\ event.toasts[1].title = "Error"
  /\ table.showVisualizations /\ Len(table.visualizationSpecs) = 1
  /\ ~table.isGeneratingViz /\ calls = <<>>

\* C15: in every interleaving of clicks on the Generate Charts button and
\* the dialog's Generate button with responses of the service, the table
\* component never has more than one request to the service in flight.
C15_OneRequestInFlight == Len(calls) <= 1

\* a request in flight whose response has arrived, with a dialog opened
\* after it was sent
C15_Witness ==
  /\ Len(calls) = 1 /\ calls[1].phase = "json"
  /\ table.isGeneratingViz /\ table.showJsonDialog
  /\ event.name = "handleJsonVisualization"

(***************************************************************************)
(* Properties of the chat message.                                         *)
(***************************************************************************)
\* a step in which handleSaveChart runs from its settled request to its end
SaveFinishes == calls # <<>> /\ calls' = <<>>

\* a step in which a Save Chart button is pressed
SavePressed == calls = <<>> /\ event'.name = "handleSaveChart" /\ event' # event

\* C20: in handleSaveChart a failure of the mirrored POST /api/charts/save
\* never turns a successful local save into a reported failure: once the
\* local save succeeded the success toast is shown and chartSaved is
\* dispatched whether the request resolves or rejects; without a conversation
\* id nothing is saved locally, no request is made and an error toast is
\* shown; and savingChart is false whenever the handler has finished.
C20_SaveChartReports ==
  [][/\ SaveFinishes =>
          /\ event'.toasts = <<SavedToast>>
          /\ chat'.dispatched = chat.dispatched + 1
          /\ chat'.stored = chat.stored
     /\ (SavePressed /\ chat'.stored # chat.stored) =>
          /\ Len(calls') = 1 /\ event'.toasts = <<>>
     /\ (SavePressed /\ ~Truthy(chat.conversationId)) =>
          /\ chat'.stored = chat.stored /\ chat'.saved = chat.saved
          /\ calls' = <<>>
          /\ chat'.dispatched = chat.dispatched
          /\ event'.toasts = <<SaveFailedToast>>
     /\ calls' = <<>> => ~chat'.savingChart]_vars

\* the request failed after a local save, and the save is reported as done
C20_Witness ==
  /\ event.name = "saveRejected" /\ event.toasts = <<SavedToast>>
  /\ ~chat.savingChart
  /\ chat.dispatched = Len(chat.stored)
  /\ Len(chat.saved) < Len(chat.stored)

(***************************************************************************)
(* Properties of the chat hook and the page.                               *)
(***************************************************************************)
\* the positions of the list that hold the message of a chart
ChartPositions(list, chart) ==
  {j \in 1..Len(list) : list[j].id = [kind |-> "chart", n |-> chart.id]}

\* the list is what the claim requires for the fetched messages, the saved
\* charts and the conversation c
MergedFor(list, apiMessages, savedCharts, c) ==
  /\ c = NoConversation => list = <<>>
  /\ c # NoConversation =>
       /\ \A i \in 1..Len(apiMessages) : \E j \in 1..Len(list) : list[j] = apiMessages[i]
       /\ \A i \in 1..Len(savedCharts) :
            Cardinality(ChartPositions(list, savedCharts[i])) =
              IF savedCharts[i].conversationId = c THEN 1 ELSE 0
       /\ \A j \in 1..Len(list) :
            list[j].messageType = "visualization" =>
              /\ list[j].conversationId = c
              /\ \E i \in 1..Len(savedCharts) : j \in ChartPositions(list, savedCharts[i])
       /\ \A j \in 1..(Len(list) - 1) : list[j].createdAt <= list[j + 1].createdAt

C26_CurrentIsSelected ==
  genie.currentConversationId = genie.selectedConversationId

(***************************************************************************)
(* Properties of date grouping.                                            *)
(***************************************************************************)
\* the bucket of a date under a granularity: YYYY, YYYY-Qn, the short month
\* and the year, the ISO date
Bucket(granularity, date) ==
  CASE granularity = "date_group:year" -> ToString(date.year)
    [] granularity = "date_group:quarter" ->
         ToString(date.year) \o "-Q"
           \o ToString(CHOOSE n \in 1..4 : 3 * (n - 1) < date.month /\ date.month <= 3 * n)
    [] granularity \in {"date_group:month", "date_group:month_year"} ->
         ShortMonth(date.month) \o " " \o ToString(date.year)
    [] granularity = "date_group:day" ->
         ToString(date.year) \o "-" \o TwoDigits(date.month) \o "-" \o TwoDigits(date.day)

\* C22: for each granularity year, quarter, month_year, month and day, every
\* place that applies a date_group transform (applyTransform, the
\* single-series and the series branch of processLineChart, and
\* processScatterChart) maps the same valid date to the same bucket key: the
\* year as YYYY, the quarter as YYYY-Qn, the month as the short month name and
\* year for month and month_year, and the ISO date for day.
C22_DateGroupKeys ==
  (call.fn = "date_group" /\ call.transform # "date_group:week") =>
    \A i \in 1..Len(rows) :
      ValidDate(Get(rows[i], call.column).s) =>
        LET key == Bucket(call.transform, DateOf(Get(rows[i], call.column).s)) IN
          /\ out.recs[i].applyTransform = key
          /\ out.recs[i].line = key
          /\ out.recs[i].series = key
          /\ out.recs[i].scatter = key

(***************************************************************************)
(* Properties of rolling_mean.                                             *)
(***************************************************************************)
\* the mean of the budgets of the records a..b
MeanOfRange(a, b) ==
  NDivInt(NSum([j \in 1..(b - a + 1) |-> Get(out.recs[a + j - 1], "budget")]), b - a + 1)

\* one record per row, in the order of the budgets, each with the mean of a
\* range of 1 to w records around it
RollingShape(w) ==
  /\ ~out.threw
  /\ Len(out.recs) = Len(rows)
  /\ \A v \in {Num(0), Num(1), Num(4)} :
       Cardinality({i \in 1..Len(rows) : Get(rows[i], "budget") = v})
         = Cardinality({i \in 1..Len(out.recs) : Get(out.recs[i], "budget") = v})
  /\ \A i \in 1..(Len(out.recs) - 1) :
       NLeq(Get(out.recs[i], "budget"), Get(out.recs[i + 1], "budget"))
  /\ \A i \in 1..Len(out.recs) :
       \E a \in 1..i, b \in i..Len(out.recs) :
         /\ b - a + 1 >= 1 /\ b - a + 1 <= w
         /\ Get(out.recs[i], "budget_rolling_mean") = MeanOfRange(a, b)
         /\ Get(out.recs[i], "value") = MeanOfRange(a, b)

\* C23: for every data set and every window size given as rolling_mean:w,
\* applyTransform returns one record per input row in the column's sorted
\* order, and the window averaged for the row at sorted index i is a
\* contiguous index range inside the array that contains i itself and holds
\* at least 1 and at most w rows.
C23_RollingWindow ==
  (CalledTransform("rolling_mean:") /\ CodeParam.t = "num") => RollingShape(CodeParam.n)

\* C23 as it holds: the same for every window size w >= 1; a size of 0 or a
\* code with no number is read as a window of 3 rows.
C23_RollingWindowFromOne ==
  CalledTransform("rolling_mean:") =>
    IF CodeParam.t = "num" /\ CodeParam.n >= 1 THEN RollingShape(CodeParam.n)
    ELSE IF CodeParam.t = "num" /\ CodeParam.n < 0 THEN TRUE
    ELSE RollingShape(3)

\* three rows under a window of 2: the window of the last row holds the two
\* last rows
C23_Witness ==
  /\ CalledTransform("rolling_mean:") /\ call.transform = "rolling_mean:2"
  /\ Len(rows) = 3 /\ Len(out.recs) = 3
  /\ Get(out.recs[1], "budget") # Get(out.recs[3], "budget")
  /\ Get(out.recs[3], "value") = MeanOfRange(2, 3)
  /\ Get(out.recs[3], "value") # Get(out.recs[3], "budget")

(***************************************************************************)
(* Properties of the treemap layout.                                       *)
(***************************************************************************)
\* the rectangles of the row of rectangle i: those at the same y
RowOf(i) == {j \in 1..Len(out.recs) : out.recs[j].y = out.recs[i].y}

WithinLimit(a, b, limit) == a.d = b.d /\ a.n + b.n <= limit * a.d

\* a + b <= c as fractions, a and b over the same denominator
EndsBefore(a, b, c) == a.d = b.d /\ (a.n + b.n) * c.d <= c.n * a.d

\* two rectangles share no inner point
Apart(r, s) ==
  \/ EndsBefore(r.x, r.width, s.x) \/ EndsBefore(s.x, s.width, r.x)
  \/ EndsBefore(r.y, r.height, s.y) \/ EndsBefore(s.y, s.height, r.y)

\* C25: every rectangle returned by layoutTreemap has width >= 10 and
\* height >= 10, lies inside the canvas, and no two rectangles overlap.
C25_RectanglesInsideCanvas ==
  call.fn = "layoutTreemap" =>
    /\ \A i \in 1..Len(out.recs) :
         /\ out.recs[i].width.n >= 10 * out.recs[i].width.d
         /\ out.recs[i].height.n >= 10 * out.recs[i].height.d
         /\ out.recs[i].x.n >= 0 /\ out.recs[i].y.n >= 0
         /\ WithinLimit(out.recs[i].x, out.recs[i].width, call.width)
         /\ WithinLimit(out.recs[i].y, out.recs[i].height, call.height)
    /\ \A i, j \in 1..Len(out.recs) : i # j => Apart(out.recs[i], out.recs[j])

(***************************************************************************)
(* Properties of the viewer of saved charts.                               *)
(***************************************************************************)
\* the charts of a list
ChartsOf(list) == {list[i] : i \in 1..Len(list)}

\* C27: deleteChart(id) in the saved-charts viewer removes only that chart
\* from the persisted savedCharts item: every other chart that was in
\* storage immediately before the delete is still there afterwards, in
\* every interleaving with chart saves made elsewhere after the viewer
\* loaded its list.
C27_DeleteRemovesOneChart ==
  [][(viewer.loaded /\ viewer'.savedCharts # viewer.savedCharts) =>
       /\ Cardinality(ChartsOf(viewer.savedCharts) \ ChartsOf(viewer'.savedCharts)) = 1
       /\ ChartsOf(storage') =
            ChartsOf(storage) \ (ChartsOf(viewer.savedCharts) \ ChartsOf(viewer'.savedCharts))]_vars

(***************************************************************************)
(* Properties of the single-file chat application.                         *)
(***************************************************************************)
\* the places of the messages of request n with one of the kinds
MessagesOf(n, kinds) ==
  {i \in 1..Len(app.messages) : app.messages[i].n = n /\ app.messages[i].kind \in kinds}

\* C28: in every interleaving of overlapping sendMessage calls and their
\* responses, once no request is in flight the message list contains no
\* "Thinking..." placeholder, every user message that was submitted is still
\* in the list, and each completed request added exactly one reply (its
\* content message or one error message).
C28_SettledMessages ==
  app.inFlight = {} =>
    \A n \in 1..app.sent :
      /\ MessagesOf(n, {"typing"}) = {}
      /\ MessagesOf(n, {"user"}) # {}
      /\ Cardinality(MessagesOf(n, {"content", "error"})) = 1

(***************************************************************************)
(* Properties of sorting in the table component.                           *)
(***************************************************************************)
\* a click on a header has just been handled
HeaderClicked == call'.fn = "handleSort"

\* C29: in every state of the work-package table reachable by header clicks
\* (handleSort) and clearFilters, sortField is null exactly when
\* sortDirection is null; clicking the same header repeatedly cycles
\* ascending, descending, unsorted, and clicking a different header always
\* starts at ascending for that header.
C29_SortCycle ==
  /\ [](table.sortField = Null <=> table.sortDirection = Null)
  /\ [][HeaderClicked =>
          IF table.sortField = call'.column
          THEN \/ /\ table.sortDirection = "asc"
                  /\ table'.sortField = call'.column /\ table'.sortDirection = "desc"
               \/ /\ table.sortDirection = "desc"
                  /\ table'.sortField = Null /\ table'.sortDirection = Null
          ELSE table'.sortField = call'.column /\ table'.sortDirection = "asc"]_vars
  /\ [][call'.fn = "clearFilters" =>
          table'.sortField = Null /\ table'.sortDirection = Null]_vars

\* the third click on a header, with a search term set: the table is
\* unsorted again
C29_Witness ==
  /\ call.fn = "handleSort" /\ call.column = "budget"
  /\ table.sortField = Null /\ table.sortDirection = Null
  /\ table.searchTerm = "pipe"

(***************************************************************************)
(* Properties of calculateProjectMetrics.                                  *)
(***************************************************************************)
\* C30: for every input array, calculateProjectMetrics returns counts that
\* are all non-negative and satisfy completedPackages + delayedPackages +
\* onTrackPackages = totalPackages = number of input rows, so each package
\* is counted in exactly one of completed, delayed and on track.
C30_MetricsPartition ==
  call.fn = "calculateProjectMetrics" =>
    /\ ~out.threw
    /\ out.recs[1].totalPackages = Len(rows)
    /\ out.recs[1].completedPackages >= 0
    /\ out.recs[1].delayedPackages >= 0
    /\ out.recs[1].onTrackPackages >= 0
    /\ out.recs[1].completedPackages + out.recs[1].delayedPackages
         + out.recs[1].onTrackPackages = out.recs[1].totalPackages

====
